---- MODULE Spec2Model ----
(***************************************************************************)
(* Signal scheduling and delivery engine of pocket_bot (src/src/pocket_bot/ *)
(* bot.py, storage.py): the daily plan builder, the job bookkeeping, the    *)
(* timer callbacks, the administrator's manual trigger and the recipient    *)
(* resolver.                                                                *)
(*                                                                          *)
(* Time is the wall clock of the reference time zone in whole seconds,      *)
(* counted from 00:00 of day 0.  Update handlers run one at a time (the     *)
(* application is built without concurrent updates); job callbacks run as   *)
(* tasks of their own and interleave with a handler at every await.         *)
(***************************************************************************)
EXTENDS Integers, Sequences, FiniteSets, TLC

VARIABLES
    now,               \* wall clock, seconds since 00:00 of day 0
    signals_enabled,   \* settings row "signals_enabled": <<1>> or <<0>>
    working_hours,     \* settings row "working_hours": <<hh, mm, hh, mm>>
    signals_range,     \* settings row "signals_range": <<lower, upper>>
    state,             \* bot_data["auto_signal_state"]: date, target, sent
    jobs,              \* bot_data["auto_signal_jobs"]: list of {warning, delivery}
    timers,            \* the job queue: run_once jobs that are still scheduled
    refreshAt,         \* next run of the daily refresh job, NoTime before start
    tasks,             \* coroutines suspended at an await
    applications,      \* applications.status per user
    user_stages,       \* user_stages.stage per user
    personal_signals,  \* personal_signals.enabled per user (persisted)
    cache,             \* bot_data[APPLICATION_USER_DATA_KEY][u]["personal_signals_enabled"]
    last,              \* history: what the last step did
    hist               \* history: the calendar day's plan and delivery runs

vars == <<now, signals_enabled, working_hours, signals_range, state, jobs, timers,
          refreshAt, tasks, applications, user_stages, personal_signals, cache,
          last, hist>>

----------------------------------------------------------------------------
(* Bounds of the model *)

NumUsers == 3       \* user ids 1..NumUsers
MaxCount == 2       \* largest number an administrator types into the count range
MaxDay == 0         \* calendar days 0..MaxDay
MaxTasks == 1       \* job callbacks suspended at the same time

(* Program constants *)

AUTO_SIGNAL_WARNING_SECONDS == 10
DaySeconds == 24 * 3600
AUTO_SIGNAL_REFRESH_TIME == 5 * 60
DEFAULT_WORKING_HOURS == <<9, 0, 12, 0>>
DEFAULT_SIGNALS_RANGE == <<6, 10>>
DEFAULT_SIGNALS_STATUS == TRUE
DEFAULT_PERSONAL_SIGNALS == TRUE
AUTO_SIGNAL_START_TIME == 9 * 3600
AUTO_SIGNAL_END_TIME == 12 * 3600
STAGE_LANGUAGE == "language"
STAGE_PENDING == "pending"
STAGE_COMPLETED == "completed"
STAGE_REJECTED == "rejected"

Users == 1 .. NumUsers
ADMIN_IDS == {2}

None == <<>>        \* Python's None, the empty string and a missing row
NoJob == 0          \* a None slot of a jobs entry
NoTime == 0 - 1
NoDate == 0 - 1

Day(t) == t \div DaySeconds
Max(a, b) == IF a >= b THEN a ELSE b
Min(a, b) == IF a <= b THEN a ELSE b

\* the largest first
RECURSIVE sorted_descending(_)
sorted_descending(S) ==
    IF S = {} THEN <<>>
    ELSE LET m == CHOOSE x \in S : \A y \in S : x >= y
         IN <<m>> \o sorted_descending(S \ {m})

RECURSIVE sorted(_)
sorted(S) ==
    IF S = {} THEN <<>>
    ELSE LET m == CHOOSE x \in S : \A y \in S : x <= y
         IN <<m>> \o sorted(S \ {m})

----------------------------------------------------------------------------
(* Parsing of the stored settings *)

\* dt_time(hour, minute) raises ValueError outside 0..23 / 0..59
_parse_working_hours_window(hours) ==
    IF hours = None THEN None
    ELSE IF hours[1] \in 0 .. 23 /\ hours[2] \in 0 .. 59
            /\ hours[3] \in 0 .. 23 /\ hours[4] \in 0 .. 59
         THEN <<hours[1] * 3600 + hours[2] * 60, hours[3] * 3600 + hours[4] * 60>>
         ELSE None

\* a parser that accepts a range whose upper bound is below its lower bound
_parse_signal_range_bounds_lax(range_value) ==
    IF range_value = None THEN None
    ELSE <<Min(range_value[1], range_value[2]), Max(range_value[1], range_value[2])>>

_parse_signal_range_bounds(range_value) ==
    IF range_value = None THEN None
    ELSE IF range_value[1] < 0 \/ range_value[2] < 0 \/ range_value[2] < range_value[1]
         THEN None
         ELSE range_value

\* a fallback to no window at all, the stored hours left as they are
_resolve_auto_signal_window_none(hours) ==
    LET window == _parse_working_hours_window(hours)
    IN IF window # None THEN [window |-> window, hours |-> hours]
       ELSE [window |-> <<0, 0>>, hours |-> hours]

\* a fallback that does not write the default hours back
_resolve_auto_signal_window_kept(hours) ==
    LET window == _parse_working_hours_window(hours)
        fallback_window == _parse_working_hours_window(DEFAULT_WORKING_HOURS)
    IN IF window # None THEN [window |-> window, hours |-> hours]
       ELSE [window |-> fallback_window, hours |-> hours]

\* returns the window and the working_hours row it leaves behind
_resolve_auto_signal_window(hours) ==
    LET window == _parse_working_hours_window(hours)
        fallback_window == _parse_working_hours_window(DEFAULT_WORKING_HOURS)
    IN IF window # None THEN [window |-> window, hours |-> hours]
       ELSE IF fallback_window = None
            THEN [window |-> <<AUTO_SIGNAL_START_TIME, AUTO_SIGNAL_END_TIME>>,
                  hours |-> DEFAULT_WORKING_HOURS]
            ELSE [window |-> fallback_window, hours |-> DEFAULT_WORKING_HOURS]

\* reports the whole target as left, whatever was sent
_auto_signal_remaining_total(st) == IF st.target > 0 THEN st.target ELSE 0

\* reports one more than is left
_auto_signal_remaining_generous(st) == Max(st.target - st.sent, 0) + 1

_auto_signal_remaining(st) ==
    LET remaining == st.target - st.sent
    IN IF remaining > 0 THEN remaining ELSE 0

----------------------------------------------------------------------------
(* The part of the program's state the engine's functions read and write,   *)
(* as one value, so that a handler can be written as their composition.     *)

World ==
    [now |-> now, enabled |-> signals_enabled, hours |-> working_hours,
     range |-> signals_range, state |-> state, jobs |-> jobs, timers |-> timers,
     apps |-> applications, stages |-> user_stages, ps |-> personal_signals,
     ch |-> cache]

_bool_to_int(value) == IF value THEN 1 ELSE 0

\* storage.get_global_signals: bool(int(value)); a missing row reads as False
get_global_signals(w) == w.enabled # None /\ w.enabled[1] # 0

\* INSERT OR REPLACE in place of INSERT OR IGNORE: the defaults are written
\* over whatever the rows hold
_ensure_bot_defaults_replace(w) ==
    [w EXCEPT !.enabled = <<_bool_to_int(DEFAULT_SIGNALS_STATUS)>>,
              !.hours = DEFAULT_WORKING_HOURS,
              !.range = DEFAULT_SIGNALS_RANGE]

\* storage.ensure_defaults: INSERT OR IGNORE of the three settings rows
_ensure_bot_defaults(w) ==
    [w EXCEPT !.enabled = IF @ = None THEN <<_bool_to_int(DEFAULT_SIGNALS_STATUS)>> ELSE @,
              !.hours = IF @ = None THEN DEFAULT_WORKING_HOURS ELSE @,
              !.range = IF @ = None THEN DEFAULT_SIGNALS_RANGE ELSE @]

----------------------------------------------------------------------------
(* Job bookkeeping *)

JobIds(js) ==
    {js[i].warning : i \in DOMAIN js} \cup {js[i].delivery : i \in DOMAIN js}

\* a removal that leaves the job in the queue
schedule_removal_kept(tm, id) == tm

\* Job.schedule_removal: the job leaves the queue; a job that already ran is not there
schedule_removal(tm, id) == {t \in tm : t.id # id}

RECURSIVE _reset_auto_signal_jobs(_, _)
_reset_auto_signal_jobs(job_list, tm) ==
    IF job_list = <<>> THEN tm
    ELSE LET entry == Head(job_list)
             t1 == IF entry.warning # NoJob THEN schedule_removal(tm, entry.warning) ELSE tm
             t2 == IF entry.delivery # NoJob THEN schedule_removal(t1, entry.delivery) ELSE t1
         IN _reset_auto_signal_jobs(Tail(job_list), t2)

\* cancels the jobs of the newest entry only
_clear_auto_signal_jobs_newest(w) ==
    IF w.jobs = <<>> THEN w
    ELSE [w EXCEPT !.jobs = <<>>,
                   !.timers = _reset_auto_signal_jobs(<<w.jobs[Len(w.jobs)]>>, @)]

_clear_auto_signal_jobs(w) ==
    [w EXCEPT !.jobs = <<>>, !.timers = _reset_auto_signal_jobs(w.jobs, w.timers)]

_register_auto_signal_job(js, warning_job, delivery_job) ==
    Append(js, [warning |-> warning_job, delivery |-> delivery_job])

\* an unregistration that leaves the bookkeeping as it was
_unregister_nothing(js, job) == js

\* an unregistration that keeps an entry whose two references are both gone
_unregister_keeps_entry(js, job) ==
    [i \in DOMAIN js |->
        [warning |-> IF js[i].warning = job THEN NoJob ELSE js[i].warning,
         delivery |-> IF js[i].delivery = job THEN NoJob ELSE js[i].delivery]]

_unregister_auto_job_reference(js, job) ==
    LET cleared(e) == [warning |-> IF e.warning = job THEN NoJob ELSE e.warning,
                       delivery |-> IF e.delivery = job THEN NoJob ELSE e.delivery]
        step == [i \in DOMAIN js |-> cleared(js[i])]
    IN SelectSeq(step, LAMBDA e : e.warning # NoJob \/ e.delivery # NoJob)

\* removes the jobs of the last entry from the queue and leaves the entry
_cancel_one_keeps_entry(w) ==
    IF w.jobs = <<>> THEN [w |-> w, cancelled |-> FALSE]
    ELSE [w |-> [w EXCEPT !.timers = _reset_auto_signal_jobs(
                                         <<w.jobs[Len(w.jobs)]>>, @)],
          cancelled |-> TRUE]

\* pops entries from the end until one held a job; returns the world and the flag
RECURSIVE _cancel_one_scheduled_auto_job(_)
_cancel_one_scheduled_auto_job(w) ==
    IF w.jobs = <<>> THEN [w |-> w, cancelled |-> FALSE]
    ELSE LET entry == w.jobs[Len(w.jobs)]
             rest == SubSeq(w.jobs, 1, Len(w.jobs) - 1)
             t1 == IF entry.warning # NoJob
                   THEN schedule_removal(w.timers, entry.warning) ELSE w.timers
             t2 == IF entry.delivery # NoJob
                   THEN schedule_removal(t1, entry.delivery) ELSE t1
             cancelled == entry.warning # NoJob \/ entry.delivery # NoJob
         IN IF cancelled
            THEN [w |-> [w EXCEPT !.jobs = rest, !.timers = t2], cancelled |-> TRUE]
            ELSE _cancel_one_scheduled_auto_job([w EXCEPT !.jobs = rest])

----------------------------------------------------------------------------
(* Daily plan builder *)

\* What the builder draws: random.randint(lower, upper), one random.random()
\* per planned signal, and the time that passes between the two clock reads
\* (line 1670 and line 1713).
PickChoices == {"first", "middle", "end"}
PickRank(pick) == CASE pick = "first" -> 0 [] pick = "middle" -> 1 [] OTHER -> 2

\* the instants are sorted after the draw, so a draw is taken in sorted order
PicksOf(n) ==
    {[i \in 1 .. n |-> IF i <= a THEN "first" ELSE IF i <= b THEN "middle" ELSE "end"] :
        <<a, b>> \in {ab \in (0 .. n) \X (0 .. n) : ab[1] <= ab[2]}}

\* a draw that can land one above the upper bound
DrawsWide(w, lags) ==
    LET range_bounds == _parse_signal_range_bounds(_ensure_bot_defaults(w).range)
        targets == IF ~get_global_signals(_ensure_bot_defaults(w)) \/ range_bounds = None
                   THEN {0}
                   ELSE range_bounds[1] .. range_bounds[2] + 1
    IN UNION {{[target |-> t, picks |-> p, lag |-> l] :
                  p \in PicksOf(t), l \in lags} : t \in targets}

Draws(w, lags) ==
    LET range_bounds == _parse_signal_range_bounds(_ensure_bot_defaults(w).range)
        targets == IF ~get_global_signals(_ensure_bot_defaults(w)) \/ range_bounds = None
                   THEN {0}
                   ELSE range_bounds[1] .. range_bounds[2]
    IN UNION {{[target |-> t, picks |-> p, lag |-> l] :
                  p \in PicksOf(t), l \in lags} : t \in targets}

\* an offset that reaches back before the earliest instant
_offset_before(pick, duration_seconds) == 0 - 5

\* offset = random.random() * duration_seconds; "end" is the draw that rounds
\* up to duration_seconds itself
_offset(pick, duration_seconds) ==
    CASE pick = "first" -> 0
      [] pick = "middle" -> duration_seconds \div 2
      [] OTHER -> duration_seconds

NextJobId(w) ==
    LET used == {t.id : t \in w.timers} \cup JobIds(w.jobs) \cup {NoJob}
    IN 1 + CHOOSE m \in used : \A x \in used : x <= m

\* a scheduling loop that registers a pair for an instant already past
RECURSIVE _schedule_times_all(_, _, _)
_schedule_times_all(w, times, current_now) ==
    IF times = <<>> THEN w
    ELSE LET delivery_time == Head(times)
             warning_job == [id |-> NextJobId(w), kind |-> "warning",
                             at |-> current_now, name |-> delivery_time]
             delivery_job == [id |-> NextJobId(w) + 1, kind |-> "delivery",
                              at |-> Max(delivery_time, current_now),
                              name |-> delivery_time]
         IN _schedule_times_all(
                [w EXCEPT !.timers = @ \cup {warning_job, delivery_job},
                          !.jobs = _register_auto_signal_job(
                                       @, warning_job.id, delivery_job.id)],
                Tail(times), current_now)

\* lines 1711-1733: one warning job and one delivery job per planned instant
RECURSIVE _schedule_times(_, _, _)
_schedule_times(w, times, current_now) ==
    IF times = <<>> THEN w
    ELSE LET delivery_time == Head(times)
             warning_time == delivery_time - AUTO_SIGNAL_WARNING_SECONDS
             warning_delay == IF warning_time - current_now < 0
                              THEN 0 ELSE warning_time - current_now
             delivery_delay == delivery_time - current_now
             warning_job == [id |-> NextJobId(w), kind |-> "warning",
                             at |-> current_now + warning_delay,
                             name |-> delivery_time]
             delivery_job == [id |-> NextJobId(w) + 1, kind |-> "delivery",
                              at |-> current_now + delivery_delay,
                              name |-> delivery_time]
         IN IF delivery_delay <= 0
            THEN _schedule_times(w, Tail(times), current_now)
            ELSE _schedule_times(
                     [w EXCEPT !.timers = @ \cup {warning_job, delivery_job},
                               !.jobs = _register_auto_signal_job(
                                            @, warning_job.id, delivery_job.id)],
                     Tail(times), current_now)

\* a builder that schedules without asking whether the window has room left
_setup_auto_signals_for_today_eager(w, draw) ==
    LET w1 == _ensure_bot_defaults(_clear_auto_signal_jobs(w))
        today == Day(w.now)
        nothing == [date |-> today, target |-> 0, sent |-> 0]
        resolved == _resolve_auto_signal_window(w1.hours)
        start_dt == today * DaySeconds + resolved.window[1]
        end_dt == today * DaySeconds + resolved.window[2]
        earliest == Max(start_dt, w.now + AUTO_SIGNAL_WARNING_SECONDS + 1)
        candidate(pick) ==
            IF earliest + _offset(pick, end_dt - earliest) >= end_dt
            THEN end_dt - 1
            ELSE earliest + _offset(pick, end_dt - earliest)
        times == SortSeq([i \in 1 .. draw.target |-> candidate(draw.picks[i])],
                         LAMBDA a, b : a < b)
    IN IF ~get_global_signals(w1) \/ _parse_signal_range_bounds(w1.range) = None
       THEN [w1 EXCEPT !.state = nothing]
       ELSE IF end_dt <= start_dt
       THEN [w1 EXCEPT !.hours = resolved.hours, !.state = nothing]
       ELSE [_schedule_times(
                 [w1 EXCEPT !.hours = resolved.hours,
                            !.state = [date |-> today, target |-> draw.target,
                                       sent |-> 0]],
                 times, w.now + draw.lag)
               EXCEPT !.now = w.now + draw.lag]

_setup_auto_signals_for_today(w, draw) ==
    LET w1 == _ensure_bot_defaults(_clear_auto_signal_jobs(w))
        today == Day(w.now)
        nothing == [date |-> today, target |-> 0, sent |-> 0]
        range_bounds == _parse_signal_range_bounds(w1.range)
    IN IF ~get_global_signals(w1) THEN [w1 EXCEPT !.state = nothing]
       ELSE IF range_bounds = None THEN [w1 EXCEPT !.state = nothing]
       ELSE
         LET target == draw.target
             resolved == _resolve_auto_signal_window(w1.hours)
             w2 == [w1 EXCEPT !.hours = resolved.hours]
             start_dt == today * DaySeconds + resolved.window[1]
             end_dt == today * DaySeconds + resolved.window[2]
         IN IF end_dt <= start_dt THEN [w2 EXCEPT !.state = nothing]
            ELSE
              LET w3 == [w2 EXCEPT !.state =
                            [date |-> today, target |-> target, sent |-> 0]]
                  earliest == Max(start_dt, w.now + AUTO_SIGNAL_WARNING_SECONDS + 1)
                  latest == end_dt
                  duration_seconds == latest - earliest
                  candidate(pick) ==
                      IF earliest + _offset(pick, duration_seconds) >= latest
                      THEN latest - 1
                      ELSE earliest + _offset(pick, duration_seconds)
                  times == SortSeq([i \in 1 .. target |-> candidate(draw.picks[i])],
                                   LAMBDA a, b : a < b)
              IN IF target <= 0 THEN w3
                 ELSE IF latest <= earliest THEN w3
                 ELSE IF duration_seconds <= AUTO_SIGNAL_WARNING_SECONDS THEN w3
                 ELSE [_schedule_times(w3, times, w.now + draw.lag)
                          EXCEPT !.now = w.now + draw.lag]

\* rebuilds the plan when the stored date is not today's
NeedsSetup(w) == w.state.date # Day(w.now)

_ensure_auto_signal_state(w, draw) ==
    IF NeedsSetup(w) THEN _setup_auto_signals_for_today(w, draw) ELSE w

----------------------------------------------------------------------------
(* Recipient resolver *)

NoPref == "none"    \* no personal_signals row / no cached value

_pref(value) == IF value THEN "on" ELSE "off"

\* storage.list_signal_recipient_ids: approved application or completed stage,
\* and COALESCE(personal_signals.enabled, 1) = 1
list_signal_recipient_ids(w, completed_stage) ==
    {u \in Users : /\ (w.apps[u] = "approved" \/ w.stages[u] = completed_stage)
                   /\ w.ps[u] # "off"}

\* the cached value wins; otherwise the persisted one, persisting the default
\* when there is none
\* a reader that answers from the row as it was before the default is written
_get_personal_signals_setting_cold(w, user_id) ==
    IF w.ch[user_id] # NoPref
    THEN [w |-> w, value |-> (w.ch[user_id] = "on")]
    ELSE LET persisted == w.ps[user_id]
             stored == IF persisted = NoPref THEN _pref(DEFAULT_PERSONAL_SIGNALS)
                       ELSE persisted
         IN [w |-> [w EXCEPT !.ps[user_id] = stored, !.ch[user_id] = stored],
             value |-> (persisted = "on")]

_get_personal_signals_setting(w, user_id) ==
    IF w.ch[user_id] # NoPref
    THEN [w |-> w, value |-> (w.ch[user_id] = "on")]
    ELSE LET persisted == w.ps[user_id]
             value == IF persisted = NoPref THEN DEFAULT_PERSONAL_SIGNALS
                      ELSE persisted = "on"
             w1 == IF persisted = NoPref
                   THEN [w EXCEPT !.ps[user_id] = _pref(value)] ELSE w
         IN [w |-> [w1 EXCEPT !.ch[user_id] = _pref(value)], value |-> value]

_set_personal_signals_setting(w, user_id, value) ==
    [w EXCEPT !.ps[user_id] = _pref(value), !.ch[user_id] = _pref(value)]

\* lines 1497-1498: the setting of every listed user is read (and initialised)
RECURSIVE _touch_personal_signals(_, _)
_touch_personal_signals(w, ids) ==
    IF ids = <<>> THEN w
    ELSE _touch_personal_signals(_get_personal_signals_setting(w, Head(ids)).w, Tail(ids))

\* lines 1500-1502: administrators join by their own setting
RECURSIVE _add_admins(_, _, _)
_add_admins(w, recipient_ids, admins) ==
    IF admins = <<>> THEN [w |-> w, ids |-> recipient_ids]
    ELSE LET got == _get_personal_signals_setting(w, Head(admins))
         IN _add_admins(got.w,
                        IF got.value THEN recipient_ids \cup {Head(admins)}
                        ELSE recipient_ids,
                        Tail(admins))

_gather_signal_recipients(w) ==
    LET w0 == _ensure_bot_defaults(w)
    IN IF ~get_global_signals(w0) THEN [w |-> w0, recipients |-> <<>>]
       ELSE LET recipient_ids == list_signal_recipient_ids(w0, STAGE_COMPLETED) \ ADMIN_IDS
                w1 == _touch_personal_signals(w0, sorted(recipient_ids))
                added == _add_admins(w1, recipient_ids, sorted(ADMIN_IDS \cap Users))
            IN [w |-> added.w, recipients |-> sorted(added.ids)]

----------------------------------------------------------------------------
(* Caption truncation: _prepare_caption_text *)

TELEGRAM_CAPTION_LIMIT == 1024

\* the marker as the source file spells it: three characters
ellipsis == <<"a_circumflex", "euro_sign", "broken_bar">>

\* characters that str.rstrip() removes
Whitespace == {" ", "nl"}

\* str.rstrip(): drop the whitespace at the end
rstrip(text) ==
    LET n == Len(text)
        \* the last character that is not whitespace, 0 when there is none
        end == CHOOSE k \in 0 .. n :
                   /\ k = 0 \/ text[k] \notin Whitespace
                   /\ \A j \in k + 1 .. n : text[j] \in Whitespace
    IN SubSeq(text, 1, end)

\* cuts at the limit and then appends the marker
_prepare_caption_text_cut(text, limit) ==
    IF Len(text) <= limit
    THEN [text |-> text, was_truncated |-> FALSE]
    ELSE [text |-> rstrip(SubSeq(text, 1, limit)) \o ellipsis, was_truncated |-> TRUE]

_prepare_caption_text(text, limit) ==
    IF Len(text) <= limit
    THEN [text |-> text, was_truncated |-> FALSE]
    ELSE LET slice_limit == Max(0, limit - Len(ellipsis))
             truncated == rstrip(SubSeq(text, 1, slice_limit))
         IN IF truncated = <<>>
            THEN [text |-> ellipsis, was_truncated |-> TRUE]
            ELSE [text |-> truncated \o ellipsis, was_truncated |-> TRUE]

\* rendered texts end up to TextSlack characters short of or beyond the limit
TextSlack == 4

\* a text of n characters whose characters lo .. hi are blanks or line breaks
TextOf(n, lo, hi, blank) ==
    [k \in 1 .. n |-> IF k >= lo /\ k <= hi THEN blank ELSE "x"]

\* a rendered caption that fits the limit and one that does not
RenderedShort == TextOf(TELEGRAM_CAPTION_LIMIT - TextSlack, 1, 0, " ")
RenderedLong == TextOf(TELEGRAM_CAPTION_LIMIT + TextSlack, 1, 0, " ")

Texts ==
    {TextOf(n, lo, hi, blank) :
        n \in TELEGRAM_CAPTION_LIMIT - TextSlack .. TELEGRAM_CAPTION_LIMIT + TextSlack,
        lo \in {1} \cup (TELEGRAM_CAPTION_LIMIT - 2 * TextSlack .. TELEGRAM_CAPTION_LIMIT),
        hi \in TELEGRAM_CAPTION_LIMIT - 2 * TextSlack - 1 .. TELEGRAM_CAPTION_LIMIT + TextSlack,
        blank \in Whitespace}

----------------------------------------------------------------------------
(* Delivery pipeline: _execute_auto_signal, cut at its awaits *)

\* runs whatever the toggle says
_execute_auto_signal_unguarded(w) ==
    LET gathered == _gather_signal_recipients(w)
    IN [w |-> gathered.w, suspended |-> TRUE, recipients |-> gathered.recipients]

\* lines 1837-1846, up to the await of the snapshot fetch
_execute_auto_signal(w) ==
    IF ~get_global_signals(w)
    THEN [w |-> [w EXCEPT !.state.sent = @ + 1], suspended |-> FALSE, recipients |-> <<>>]
    ELSE LET gathered == _gather_signal_recipients(w)
         IN [w |-> gathered.w, suspended |-> TRUE, recipients |-> gathered.recipients]

\* an increment that is lost when another run is waiting for its fetch or a send
_execute_auto_signal_finish_lost(w) ==
    IF Cardinality({tk \in tasks : tk.pc \in {"fetch", "send"}}) > 1
    THEN w ELSE [w EXCEPT !.state.sent = @ + 1]

\* returns without counting the signal
_execute_auto_signal_finish_uncounted(w) == w

\* lines 1874-1875, after the last await
_execute_auto_signal_finish(w) == [w EXCEPT !.state.sent = @ + 1]

\* _broadcast_manual_signal
\* a TelegramError leaves the function
_after_send_raising(acc, user_id, ok) ==
    IF ok
    THEN [acc EXCEPT !.delivered = @ + 1]
    ELSE [acc EXCEPT !.raised = TRUE]

\* lines 3065-3078: the body of the loop once the send has returned or raised
_after_send(acc, user_id, ok) ==
    IF ok
    THEN [acc EXCEPT !.delivered = @ + 1]
    ELSE [acc EXCEPT !.failed = Append(@, user_id)]

\* the counters of _broadcast_manual_signal before its first send
NoSends == [delivered |-> 0, failed |-> <<>>, raised |-> FALSE]

\* what _execute_auto_signal returns, the payload left out
Skipped == [delivered |-> 0, failed |-> <<>>, was_truncated |-> FALSE]

----------------------------------------------------------------------------
(* History kept for the properties *)

NoPlan == 0 - 1
MaxRuns == MaxCount + 2     \* the run counter stops counting here

NoDraw == [target |-> 0, picks |-> <<>>, lag |-> 0]

\* the times of day at which the administrator acts in the engine
ProbeSeconds == {8 * 3600, 9 * 3600 + 20, 9 * 3600 + 45, 9 * 3600 + 52, 12 * 3600 + 1800}
ProbeInstants == {d * DaySeconds + p : d \in 0 .. MaxDay, p \in ProbeSeconds}

AtProbe == now \in ProbeInstants

\* the times of day at which a build is looked at on its own
PlanSeconds == {8 * 3600, 9 * 3600 + 20, 9 * 3600 + 45, 9 * 3600 + 52, 12 * 3600 + 1800}
PlanInstants == {d * DaySeconds + p : d \in 0 .. MaxDay, p \in PlanSeconds}

\* a stall between the builder's two clock reads is drawn at such an instant only
LagsAt(lags) == IF now \in PlanInstants THEN lags ELSE {0}

DrawsIf(w, need, lags) == IF need THEN Draws(w, lags) ELSE {NoDraw}

\* nothing counted, nothing timed
NoHist == [on |-> FALSE, day |-> 0, planned |-> NoPlan, runs |-> 0,
           timing |-> FALSE, warned |-> {}]

\* hist.on says whether the day's runs are being counted at all
HistRun(h) == IF h.on THEN [h EXCEPT !.runs = Min(@ + 1, MaxRuns)] ELSE h
\* the largest target any build of the day has recorded
HistPlan(h, w) ==
    IF h.on THEN [h EXCEPT !.planned = Max(@, w.state.target)] ELSE h
HistDay(h, t) ==
    IF h.on /\ Day(t) # h.day
    THEN [h EXCEPT !.day = Day(t), !.planned = NoPlan, !.runs = 0]
    ELSE h
\* hist.timing says whether the warnings sent are being logged: to whom, for
\* which signal, when, and how long before the signal the warning was due
HistWarn(h, tk, t) ==
    IF h.timing
    THEN [h EXCEPT !.warned = @ \cup {[to |-> Head(tk.todo), sig |-> tk.sig,
                                       at |-> t, lead |-> tk.lead]}]
    ELSE h
\* a signal of the plan is named by its delivery time, a manual one by this
ManualSignal == 0 - 2
\* a manual trigger starts: the log forgets the manual signal before it
HistManual(h) ==
    IF h.timing THEN [h EXCEPT !.warned = {wn \in @ : wn.sig # ManualSignal}] ELSE h
\* a coroutine is told its signal and its lead only when warnings are logged
Timed(value) == IF hist.timing THEN value ELSE NoTime
\* a manual trigger remembers whether it cancelled a pair only when the day's
\* history is kept
Noted(value) == hist.on /\ value
\* the log forgets a signal once neither a job nor a coroutine of it is left
HistForget(h, js, ts) ==
    IF h.timing
    THEN [h EXCEPT !.warned = {wn \in @ : \/ \E t \in js : t.name = wn.sig
                                          \/ \E tk \in ts : tk.sig = wn.sig}]
    ELSE h

\* what a run of the builder was given, for the properties about it
BuildReport(w, draw) ==
    LET w0 == _ensure_bot_defaults(w)
        cleared == _clear_auto_signal_jobs(w)
    IN [at |-> w.now, lag |-> draw.lag, drawn |-> draw.target,
        toggle |-> w0.enabled, range |-> w0.range, hours |-> w0.hours,
        pending |-> Len(w.jobs),
        cancelled |-> Cardinality(w.timers) - Cardinality(cleared.timers)]

Commit(w) ==
    /\ now' = w.now
    /\ signals_enabled' = w.enabled
    /\ working_hours' = w.hours
    /\ signals_range' = w.range
    /\ state' = w.state
    /\ jobs' = w.jobs
    /\ timers' = w.timers
    /\ applications' = w.apps
    /\ user_stages' = w.stages
    /\ personal_signals' = w.ps
    /\ cache' = w.ch

Running == refreshAt # NoTime
\* update handlers run one at a time; job callbacks run beside them
HandlerKinds == {"manual", "remove", "finalize"}
HandlerIdle == ~\E tk \in tasks : tk.kind \in HandlerKinds
JobTasks == {tk \in tasks : tk.kind \notin HandlerKinds}

FreeTid == CHOOSE n \in 1 .. MaxTasks + 1 : \A tk \in tasks : tk.tid # n

NewTask(kind, pc, todo) ==
    [tid |-> FreeTid, kind |-> kind, pc |-> pc, todo |-> todo, wake |-> NoTime,
     target_before |-> 0, remaining_before |-> 0,
     snapshot |-> FALSE, was_truncated |-> FALSE, acc |-> NoSends,
     sig |-> NoTime, lead |-> 0, cancelled |-> FALSE]

----------------------------------------------------------------------------
(* Start-up, the clock, the daily refresh *)

\* _application_post_init: build today's plan, schedule the refresh at 00:05
PostInit(lags) ==
    /\ ~Running
    /\ \E draw \in Draws(World, LagsAt(lags)) :
          LET w == _setup_auto_signals_for_today(World, draw)
          IN /\ Commit(w)
             /\ refreshAt' = IF w.now % DaySeconds < AUTO_SIGNAL_REFRESH_TIME
                             THEN Day(w.now) * DaySeconds + AUTO_SIGNAL_REFRESH_TIME
                             ELSE (Day(w.now) + 1) * DaySeconds + AUTO_SIGNAL_REFRESH_TIME
             /\ hist' = HistPlan(hist, w)
             /\ last' = [op |-> "post_init", build |-> BuildReport(World, draw)]
             /\ UNCHANGED tasks

\* _auto_signal_refresh_job, run daily at AUTO_SIGNAL_REFRESH_TIME
RefreshJob(lags) ==
    /\ Running
    /\ refreshAt <= now
    /\ \E draw \in Draws(World, LagsAt(lags)) :
          LET w == _setup_auto_signals_for_today(World, draw)
          IN /\ Commit(w)
             /\ refreshAt' = refreshAt + DaySeconds
             /\ hist' = HistPlan(hist, w)
             /\ last' = [op |-> "refresh", build |-> BuildReport(World, draw)]
             /\ UNCHANGED tasks

Deadlines == {t.at : t \in timers} \cup {refreshAt}

TickTargets ==
    Deadlines \cup {tk.wake : tk \in {x \in tasks : x.pc = "sleep"}}
    \cup ProbeInstants
    \cup {d * DaySeconds : d \in 1 .. MaxDay}

\* time passes up to the next instant at which something can happen; a timer
\* that is due runs before the clock moves on
Tick ==
    /\ Running
    /\ \A d \in Deadlines : d > now
    /\ LET later == {t \in TickTargets : t > now /\ Day(t) <= MaxDay}
       IN /\ later # {}
          /\ now' = CHOOSE t \in later : \A x \in later : t <= x
    /\ hist' = HistForget(HistDay(hist, now'), timers, tasks)
    /\ last' = [op |-> "tick"]
    /\ UNCHANGED <<signals_enabled, working_hours, signals_range, state, jobs, timers,
                   refreshAt, tasks, applications, user_stages, personal_signals, cache>>

----------------------------------------------------------------------------
(* Administrator's handlers that change the settings *)

\* handle_admin_actions, "admin:signals:on|off": sets the toggle and replans when
\* it changes, then renders the signals view (_ensure_auto_signal_state)
AdminToggle(desired, lags) ==
    /\ Running /\ HandlerIdle
    /\ LET w0 == _ensure_bot_defaults(World)
           changes == get_global_signals(w0) # desired
           w1 == [w0 EXCEPT !.enabled = <<_bool_to_int(desired)>>]
       IN \E draw \in DrawsIf(w1, changes \/ NeedsSetup(w0), LagsAt(lags)) :
            LET w2 == IF changes THEN _setup_auto_signals_for_today(w1, draw)
                      ELSE _ensure_auto_signal_state(w0, draw)
            IN /\ Commit(w2)
               /\ hist' = HistPlan(hist, w2)
               /\ last' = [op |-> "admin_toggle",
                           build |-> IF changes \/ NeedsSetup(w0)
                                     THEN BuildReport(IF changes THEN w1 ELSE w0, draw)
                                     ELSE None]
               /\ UNCHANGED <<refreshAt, tasks>>

\* handle_main_menu_actions, "main:workspace:on|off" pressed by an administrator:
\* sets the toggle only; _send_workspace_view then reads the admin's own setting
WorkspaceToggle(admin, desired) ==
    /\ Running /\ HandlerIdle
    /\ admin \in ADMIN_IDS
    /\ LET w0 == _ensure_bot_defaults(World)
           changes == get_global_signals(w0) # desired
           w1 == IF changes THEN [w0 EXCEPT !.enabled = <<_bool_to_int(desired)>>] ELSE w0
           w2 == _get_personal_signals_setting(w1, admin).w
       IN /\ Commit(w2)
          /\ hist' = hist
          /\ last' = [op |-> "workspace_toggle"]
          /\ UNCHANGED <<refreshAt, tasks>>

\* _process_admin_text_input, "working_hours": text matching \d{2}:\d{2}-\d{2}:\d{2}
SetWorkingHours(hours, lags) ==
    /\ Running /\ HandlerIdle
    /\ LET w1 == [World EXCEPT !.hours = hours]
       IN \E draw \in Draws(w1, LagsAt(lags)) :
            LET w2 == _setup_auto_signals_for_today(w1, draw)
            IN /\ Commit(w2)
               /\ hist' = HistPlan(hist, w2)
               /\ last' = [op |-> "set_working_hours", build |-> BuildReport(w1, draw)]
               /\ UNCHANGED <<refreshAt, tasks>>

\* _process_admin_text_input, "signals_range": text matching \d+\s*-\s*\d+
SetSignalRange(range_value, lags) ==
    /\ Running /\ HandlerIdle
    /\ LET w1 == [World EXCEPT !.range = range_value]
       IN \E draw \in Draws(w1, LagsAt(lags)) :
            LET w2 == _setup_auto_signals_for_today(w1, draw)
            IN /\ Commit(w2)
               /\ hist' = HistPlan(hist, w2)
               /\ last' = [op |-> "set_signal_range", build |-> BuildReport(w1, draw)]
               /\ UNCHANGED <<refreshAt, tasks>>

----------------------------------------------------------------------------
(* Timer callbacks *)

\* a run_once job leaves the queue when it runs; the callback first drops its
\* own reference from the bookkeeping
Fired(w, t) ==
    [w EXCEPT !.timers = @ \ {t}, !.jobs = _unregister_auto_job_reference(@, t.id)]

\* _auto_signal_warning_job, up to the first send of the broadcast
WarningJob(t) ==
    /\ Running
    /\ t \in timers /\ t.kind = "warning" /\ t.at <= now
    /\ Cardinality(JobTasks) < MaxTasks
    /\ LET w1 == Fired(World, t)
       IN IF ~get_global_signals(w1)
          THEN /\ Commit(w1)
               /\ last' = [op |-> "warning_job", warned |-> <<>>]
               /\ UNCHANGED <<refreshAt, tasks, hist>>
          ELSE \E draw \in DrawsIf(w1, NeedsSetup(w1), {0}) :
                 LET w2 == _ensure_auto_signal_state(w1, draw)
                     gathered == _gather_signal_recipients(w2)
                     proceeds == _auto_signal_remaining(w2.state) > 0
                     w3 == IF proceeds THEN gathered.w ELSE w2
                     warned == IF proceeds THEN gathered.recipients ELSE <<>>
                 IN /\ Commit(w3)
                    /\ tasks' = IF warned # <<>>
                                THEN tasks \cup
                                     {[NewTask("warning", "warn", warned)
                                          EXCEPT !.sig = Timed(t.name),
                                                 !.lead = Timed(t.name - t.at)]}
                                ELSE tasks
                    /\ hist' = IF NeedsSetup(w1) THEN HistPlan(hist, w2) ELSE hist
                    /\ last' = [op |-> "warning_job", warned |-> warned]
                    /\ UNCHANGED refreshAt

\* _auto_signal_delivery_job, up to the await of the snapshot fetch
DeliveryJob(t) ==
    /\ Running
    /\ t \in timers /\ t.kind = "delivery" /\ t.at <= now
    /\ Cardinality(JobTasks) < MaxTasks
    /\ LET w1 == Fired(World, t)
       IN \E draw \in DrawsIf(w1, NeedsSetup(w1), {0}) :
            LET w2 == _ensure_auto_signal_state(w1, draw)
                proceeds == _auto_signal_remaining(w2.state) > 0
                run == _execute_auto_signal(w2)
                w3 == IF proceeds THEN run.w ELSE w2
            IN /\ Commit(w3)
               /\ tasks' = IF proceeds /\ run.suspended
                           THEN tasks \cup
                                {[NewTask("delivery", "fetch", run.recipients)
                                     EXCEPT !.sig = Timed(t.name)]}
                           ELSE tasks
               /\ hist' = LET h == IF NeedsSetup(w1) THEN HistPlan(hist, w2) ELSE hist
                          IN IF proceeds THEN HistRun(h) ELSE h
               /\ last' = [op |-> "delivery_job", ran |-> proceeds,
                           returned |-> IF proceeds /\ ~run.suspended
                                        THEN Skipped ELSE None,
                           counted |-> w3.state.sent]
               /\ UNCHANGED refreshAt

----------------------------------------------------------------------------
(* Manual trigger: _handle_admin_auto_trigger, cut at its awaits *)

\* lines 1941-1980: the checks, cancelOne, and the first send of the warning.
\* Every early return renders the signals view, which ensures the day state.
ManualTrigger ==
    /\ Running /\ HandlerIdle
    /\ \E draw \in DrawsIf(World, NeedsSetup(World), {0}) :
         LET w1 == _ensure_auto_signal_state(World, draw)
             remaining_before == _auto_signal_remaining(w1.state)
             gathered == _gather_signal_recipients(w1)
             popped == _cancel_one_scheduled_auto_job(gathered.w)
             outcome == IF ~get_global_signals(World) THEN "not_configured"
                        ELSE IF remaining_before <= 0 THEN "no_remaining"
                        ELSE IF gathered.recipients = <<>> THEN "no_recipients"
                        ELSE "started"
             w2 == CASE outcome = "started" -> popped.w
                     [] outcome = "no_recipients" -> gathered.w
                     [] OTHER -> w1
         IN /\ Commit(w2)
            /\ tasks' = IF outcome = "started"
                        THEN tasks \cup
                             {[NewTask("manual", "warn", gathered.recipients)
                                  EXCEPT !.target_before = w1.state.target,
                                         !.remaining_before = remaining_before,
                                         !.cancelled = Noted(popped.cancelled),
                                         !.sig = Timed(ManualSignal),
                                         !.lead = Timed(AUTO_SIGNAL_WARNING_SECONDS)]}
                        ELSE tasks
            /\ hist' = LET h == IF NeedsSetup(World) THEN HistPlan(hist, w1) ELSE hist
                       IN IF outcome = "started" THEN HistManual(h) ELSE h
            /\ last' = [op |-> "manual_trigger", outcome |-> outcome,
                        cancelled |-> (outcome = "started" /\ popped.cancelled),
                        pending |-> Len(w1.jobs)]
            /\ UNCHANGED refreshAt

\* _broadcast_auto_signal_warning: one send_message returns (or fails, which is
\* logged); after the last one the job callback ends and the manual trigger
\* goes to sleep for AUTO_SIGNAL_WARNING_SECONDS
WarnOne(tk) ==
    /\ tk \in tasks /\ tk.pc = "warn"
    /\ LET rest == Tail(tk.todo)
           next == IF rest # <<>> THEN {[tk EXCEPT !.todo = rest]}
                   ELSE IF tk.kind = "manual"
                        THEN {[tk EXCEPT !.todo = <<>>, !.pc = "sleep",
                                         !.wake = now + AUTO_SIGNAL_WARNING_SECONDS]}
                        ELSE {}
       IN tasks' = (tasks \ {tk}) \cup next
    /\ last' = [op |-> "warn_one", to |-> Head(tk.todo)]
    /\ hist' = HistWarn(hist, tk, now)
    /\ UNCHANGED <<now, signals_enabled, working_hours, signals_range, state, jobs,
                   timers, refreshAt, applications, user_stages, personal_signals,
                   cache>>

\* what follows _execute_auto_signal in its caller: the job callback only logs;
\* the manual trigger renders the signals view (lines 1984-2015), which ensures
\* the day state and awaits the send
AfterRun(tk, w, draw) ==
    IF tk.kind = "manual"
    THEN [w |-> _ensure_auto_signal_state(w, draw),
          tasks |-> (tasks \ {tk}) \cup {[tk EXCEPT !.pc = "view", !.todo = <<>>]}]
    ELSE [w |-> w, tasks |-> tasks \ {tk}]

\* asyncio.sleep returns: the manual trigger enters the delivery pipeline
ManualWake(tk) ==
    /\ tk \in tasks /\ tk.pc = "sleep" /\ tk.wake <= now
    /\ LET run == _execute_auto_signal(World)
       IN IF run.suspended
          THEN /\ Commit(run.w)
               /\ tasks' = (tasks \ {tk}) \cup
                           {[tk EXCEPT !.pc = "fetch", !.todo = run.recipients]}
               /\ hist' = HistRun(hist)
          ELSE \E draw \in DrawsIf(run.w, NeedsSetup(run.w), {0}) :
                 LET after == AfterRun(tk, run.w, draw)
                 IN /\ Commit(after.w)
                    /\ tasks' = after.tasks
                    /\ hist' = HistRun(IF NeedsSetup(run.w)
                                       THEN HistPlan(hist, after.w) ELSE hist)
    /\ last' = [op |-> "manual_wake",
                returned |-> IF _execute_auto_signal(World).suspended
                             THEN None ELSE Skipped,
                counted |-> _execute_auto_signal(World).w.state.sent]
    /\ UNCHANGED refreshAt

\* the snapshot fetch returns (a snapshot or None) and the caption is rendered
\* and cut to the limit; with nobody to send to the run ends here
FetchDone(tk, snapshots, texts) ==
    /\ tk \in tasks /\ tk.pc = "fetch"
    /\ \E snapshot \in snapshots, raw_caption \in texts :
        LET caption == _prepare_caption_text(raw_caption, TELEGRAM_CAPTION_LIMIT)
        IN IF tk.todo # <<>>
           THEN /\ tasks' = (tasks \ {tk}) \cup
                            {[tk EXCEPT !.pc = "send", !.snapshot = snapshot,
                                        !.was_truncated = caption.was_truncated]}
                /\ last' = [op |-> "fetch_done", snapshot |-> snapshot,
                            returned |-> None, counted |-> state.sent]
                /\ UNCHANGED <<now, signals_enabled, working_hours, signals_range,
                               state, jobs, timers, applications, user_stages,
                               personal_signals, cache, hist>>
           ELSE LET w1 == _execute_auto_signal_finish(World)
                IN \E draw \in DrawsIf(w1, tk.kind = "manual" /\ NeedsSetup(w1), {0}) :
                     LET after == AfterRun(tk, w1, draw)
                     IN /\ Commit(after.w)
                        /\ tasks' = after.tasks
                        /\ hist' = IF tk.kind = "manual" /\ NeedsSetup(w1)
                                   THEN HistPlan(hist, after.w) ELSE hist
                        /\ last' = [op |-> "fetch_done", snapshot |-> snapshot,
                                    returned |-> [delivered |-> 0, failed |-> <<>>,
                                                  was_truncated |-> caption.was_truncated],
                                    counted |-> w1.state.sent]
    /\ UNCHANGED refreshAt

\* _broadcast_manual_signal: one send returns or raises TelegramError; after the
\* last one _execute_auto_signal counts the signal as sent
SendOne(tk, oks) ==
    /\ tk \in tasks /\ tk.pc = "send"
    /\ \E ok \in oks :
        LET acc == _after_send(tk.acc, Head(tk.todo), ok)
        IN IF Tail(tk.todo) # <<>>
           THEN /\ tasks' = (tasks \ {tk}) \cup
                            {[tk EXCEPT !.todo = Tail(tk.todo), !.acc = acc]}
                /\ last' = [op |-> "send_one", to |-> Head(tk.todo), ok |-> ok,
                            sig |-> tk.sig,
                            returned |-> None, counted |-> state.sent]
                /\ UNCHANGED <<now, signals_enabled, working_hours, signals_range,
                               state, jobs, timers, applications, user_stages,
                               personal_signals, cache, hist>>
           ELSE LET w1 == _execute_auto_signal_finish(World)
                IN \E draw \in DrawsIf(w1, tk.kind = "manual" /\ NeedsSetup(w1), {0}) :
                     LET after == AfterRun(tk, w1, draw)
                     IN /\ Commit(after.w)
                        /\ tasks' = after.tasks
                        /\ hist' = IF tk.kind = "manual" /\ NeedsSetup(w1)
                                   THEN HistPlan(hist, after.w) ELSE hist
                        /\ last' = [op |-> "send_one", to |-> Head(tk.todo), ok |-> ok,
                                    sig |-> tk.sig,
                                    returned |-> [delivered |-> acc.delivered,
                                                  failed |-> acc.failed,
                                                  was_truncated |-> tk.was_truncated],
                                    counted |-> w1.state.sent]
    /\ UNCHANGED refreshAt

\* line 2017: the signals view has been sent; the trigger rebuilds today's plan
ManualFinish(tk, lags) ==
    /\ tk \in tasks /\ tk.pc = "view"
    /\ \E draw \in Draws(World, LagsAt(lags)) :
         LET w == _setup_auto_signals_for_today(World, draw)
         IN /\ Commit(w)
            /\ tasks' = tasks \ {tk}
            /\ hist' = HistPlan(hist, w)
            /\ last' = [op |-> "manual_finish", build |-> BuildReport(World, draw),
                        target_before |-> tk.target_before,
                        remaining_before |-> tk.remaining_before]
            /\ UNCHANGED refreshAt

\* an exception that is not a TelegramError leaves _execute_auto_signal: the
\* snapshot source answers with JSON that is not an object (data.get, line
\* 1170), or the image cannot be opened for the next recipient (line 3067).
\* Neither _handle_admin_auto_trigger nor the job callback has a try around the
\* pipeline and the application registers no error handler: the coroutine ends
\* where the exception was raised.
PipelineRaises(tk) ==
    /\ tk \in tasks /\ tk.kind \in {"manual", "delivery"}
    /\ tk.pc = "fetch" \/ (tk.pc = "send" /\ Tail(tk.todo) # <<>>)
    /\ tasks' = tasks \ {tk}
    /\ last' = [op |-> "pipeline_raises", kind |-> tk.kind,
                cancelled |-> tk.cancelled, build |-> None]
    /\ UNCHANGED <<now, signals_enabled, working_hours, signals_range, state, jobs,
                   timers, refreshAt, applications, user_stages, personal_signals,
                   cache, hist>>

----------------------------------------------------------------------------
(* The engine: every handler, callback and task step, interleaved *)

EngineHours == {<<9, 0, 9, 1>>, <<12, 0, 9, 0>>}
EngineRanges == {<<0, 0>>, <<1, MaxCount>>, <<MaxCount, 0>>}

\* user 1 is approved, the administrator has no stored preference: both receive
SomeRecipients ==
    /\ applications = [u \in Users |-> IF u = 1 THEN "approved" ELSE "none"]
    /\ user_stages = [u \in Users |-> IF u = 1 THEN STAGE_COMPLETED ELSE "none"]
    /\ personal_signals = [u \in Users |-> NoPref]
    /\ cache = [u \in Users |-> NoPref]

\* nobody is approved and the administrator's preference is stored as off
NoRecipients ==
    /\ applications = [u \in Users |-> "none"]
    /\ user_stages = [u \in Users |-> "none"]
    /\ personal_signals = [u \in Users |-> IF u \in ADMIN_IDS THEN "off" ELSE NoPref]
    /\ cache = [u \in Users |-> NoPref]

InitEngine ==
    /\ now = 0
    /\ signals_enabled = <<1>>
    /\ working_hours = <<9, 0, 9, 1>>
    /\ signals_range = <<1, MaxCount>>
    /\ state = [date |-> NoDate, target |-> 0, sent |-> 0]
    /\ jobs = <<>>
    /\ timers = {}
    /\ refreshAt = NoTime
    /\ tasks = {}
    /\ last = [op |-> "init"]

Init ==
    /\ InitEngine
    /\ hist = NoHist
    /\ (SomeRecipients \/ NoRecipients)

Next ==
    \/ PostInit({0})
    \/ RefreshJob({0})
    \/ Tick
    \/ AtProbe /\ \E desired \in BOOLEAN : AdminToggle(desired, {0})
    \/ AtProbe /\ \E admin \in ADMIN_IDS, desired \in BOOLEAN : WorkspaceToggle(admin, desired)
    \/ AtProbe /\ \E hours \in EngineHours : SetWorkingHours(hours, {0})
    \/ AtProbe /\ \E range_value \in EngineRanges : SetSignalRange(range_value, {0})
    \/ \E t \in timers : WarningJob(t)
    \/ \E t \in timers : DeliveryJob(t)
    \/ AtProbe /\ ManualTrigger
    \/ \E tk \in tasks : WarnOne(tk)
    \/ \E tk \in tasks : ManualWake(tk)
    \/ \E tk \in tasks : FetchDone(tk, {TRUE}, {RenderedShort})
    \/ \E tk \in tasks : SendOne(tk, {TRUE})
    \/ \E tk \in tasks : ManualFinish(tk, {0})

Spec == Init /\ [][Next]_vars

----------------------------------------------------------------------------
(* One day with the settings left alone: no handler that writes the toggle,   *)
(* the working hours or the count range; the day's builds and pipeline runs   *)
(* are counted in hist.                                                       *)

InitDay ==
    /\ InitEngine
    /\ hist = [NoHist EXCEPT !.on = TRUE]
    /\ (SomeRecipients \/ NoRecipients)

NextDay ==
    \/ PostInit({0})
    \/ RefreshJob({0})
    \/ Tick
    \/ \E t \in timers : WarningJob(t)
    \/ \E t \in timers : DeliveryJob(t)
    \/ AtProbe /\ ManualTrigger
    \/ \E tk \in tasks : WarnOne(tk)
    \/ \E tk \in tasks : ManualWake(tk)
    \/ \E tk \in tasks : FetchDone(tk, {TRUE}, {RenderedShort})
    \/ \E tk \in tasks : SendOne(tk, {TRUE})
    \/ \E tk \in tasks : ManualFinish(tk, {0})

SpecDay == InitDay /\ [][NextDay]_vars

----------------------------------------------------------------------------
(* Users, applications and preferences *)

UserStep(w, op) ==
    /\ Commit(w)
    /\ last' = [op |-> op]
    /\ UNCHANGED <<refreshAt, tasks, hist>>

\* start: the conversation goes back to the language prompt
Start(u) ==
    /\ Running /\ HandlerIdle
    /\ UserStep([World EXCEPT !.stages[u] = STAGE_LANGUAGE], "start")

\* main_menu_command -> send_main_menu: whoever asks for the menu is recorded
\* as having completed the conversation
MainMenu(u) ==
    /\ Running /\ HandlerIdle
    /\ UserStep([_ensure_bot_defaults(World) EXCEPT !.stages[u] = STAGE_COMPLETED],
                "main_menu")

\* handle_text_message with a valid Pocket ID awaited (lines 2275-2300)
SubmitPocketId(u) ==
    /\ Running /\ HandlerIdle
    /\ IF applications[u] = "rejected"
       THEN UserStep([World EXCEPT !.stages[u] = STAGE_REJECTED], "pocket_id")
       ELSE UserStep([World EXCEPT !.apps[u] = "pending", !.stages[u] = STAGE_PENDING],
                     "pocket_id")

\* handle_admin_actions "approve": _approve_application, then send_main_menu
Approve(u) ==
    /\ Running /\ HandlerIdle
    /\ applications[u] # "none"
    /\ UserStep([_ensure_bot_defaults(World)
                    EXCEPT !.apps[u] = "approved", !.stages[u] = STAGE_COMPLETED],
                "approve")

\* handle_admin_actions "reject": _reject_application
Reject(u) ==
    /\ Running /\ HandlerIdle
    /\ applications[u] # "none"
    /\ UserStep([World EXCEPT !.apps[u] = "rejected", !.stages[u] = STAGE_REJECTED],
                "reject")

\* _remove_approved_user up to the await of the tracked main-menu message's
\* deletion (lines 3700-3712): the rows are written, the cached data is not
\* yet cleared
RemoveApproved(u) ==
    /\ Running /\ HandlerIdle
    /\ applications[u] = "approved"
    /\ Commit([World EXCEPT !.apps[u] = "none", !.ps[u] = _pref(FALSE),
                            !.stages[u] = STAGE_LANGUAGE])
    /\ tasks' = tasks \cup {NewTask("remove", "delete", <<u>>)}
    /\ last' = [op |-> "remove"]
    /\ UNCHANGED <<refreshAt, hist>>

\* line 3713, after the await: cached_user_data.clear()
RemoveApprovedDone(tk) ==
    /\ tk \in tasks /\ tk.kind = "remove"
    /\ Commit([World EXCEPT !.ch[Head(tk.todo)] = NoPref])
    /\ tasks' = tasks \ {tk}
    /\ last' = [op |-> "remove_done"]
    /\ UNCHANGED <<refreshAt, hist>>

\* _unblock_rejected_user: back to pending, the cached preference dropped
UnblockRejected(u) ==
    /\ Running /\ HandlerIdle
    /\ applications[u] = "rejected"
    /\ UserStep([World EXCEPT !.apps[u] = "pending", !.stages[u] = STAGE_PENDING,
                              !.ch[u] = NoPref],
                "unblock")

\* handle_main_menu_actions, "main:workspace:on|off" pressed by somebody who
\* is not an administrator: the personal preference
PersonalToggle(u, desired) ==
    /\ Running /\ HandlerIdle
    /\ u \notin ADMIN_IDS
    /\ LET got == _get_personal_signals_setting(_ensure_bot_defaults(World), u)
       IN UserStep(IF got.value = desired THEN got.w
                   ELSE _set_personal_signals_setting(got.w, u, desired),
                   "personal_toggle")

\* _gather_signal_recipients as a job callback calls it (the warning broadcast,
\* the delivery pipeline); repeat says that the step before was such a call too
ResolveRecipients ==
    /\ Running
    /\ LET gathered == _gather_signal_recipients(World)
       IN /\ Commit(gathered.w)
          /\ last' = [op |-> "gather", recipients |-> gathered.recipients,
                      repeat |-> (last.op = "gather"),
                      before |-> IF last.op = "gather" THEN last.recipients ELSE <<>>]
          /\ UNCHANGED <<refreshAt, tasks, hist>>

\* the users that act; the others keep the rows they have at the start
ActingUsers == {1} \cup ADMIN_IDS
StaticRows ==
    {[app |-> "none", stage |-> "none", ps |-> NoPref],
     [app |-> "approved", stage |-> STAGE_COMPLETED, ps |-> NoPref],
     [app |-> "approved", stage |-> STAGE_COMPLETED, ps |-> _pref(FALSE)]}

\* a start in the afternoon: the acting users are new to the bot, the others
\* have their rows from before; nothing is cached
InitRecip ==
    /\ now = 12 * 3600 + 1800
    /\ signals_enabled = <<1>>
    /\ working_hours = <<9, 0, 9, 1>>
    /\ signals_range = <<MaxCount, MaxCount>>
    /\ state = [date |-> NoDate, target |-> 0, sent |-> 0]
    /\ jobs = <<>>
    /\ timers = {}
    /\ refreshAt = NoTime
    /\ tasks = {}
    /\ last = [op |-> "init"]
    /\ hist = NoHist
    /\ \E rows \in [Users \ ActingUsers -> StaticRows] :
          /\ applications =
                [u \in Users |-> IF u \in ActingUsers THEN "none" ELSE rows[u].app]
          /\ user_stages =
                [u \in Users |-> IF u \in ActingUsers THEN "none" ELSE rows[u].stage]
          /\ personal_signals =
                [u \in Users |-> IF u \in ActingUsers THEN NoPref ELSE rows[u].ps]
    /\ cache = [u \in Users |-> NoPref]

NextRecip ==
    \/ PostInit({0})
    \/ \E admin \in ADMIN_IDS, desired \in BOOLEAN : WorkspaceToggle(admin, desired)
    \/ \E u \in ActingUsers : Start(u)
    \/ \E u \in ActingUsers : MainMenu(u)
    \/ \E u \in ActingUsers : SubmitPocketId(u)
    \/ \E u \in ActingUsers : Approve(u)
    \/ \E u \in ActingUsers : Reject(u)
    \/ \E u \in ActingUsers : RemoveApproved(u)
    \/ \E tk \in tasks : RemoveApprovedDone(tk)
    \/ \E u \in ActingUsers : UnblockRejected(u)
    \/ \E u \in ActingUsers, desired \in BOOLEAN : PersonalToggle(u, desired)
    \/ ResolveRecipients

SpecRecip == InitRecip /\ [][NextRecip]_vars

\* who the claim says receives, from the rows as they stand
Eligible(u) == applications[u] = "approved" \/ user_stages[u] = STAGE_COMPLETED
PreferenceOn(u) == personal_signals[u] # _pref(FALSE)
ExpectedRecipients ==
    IF signals_enabled = <<0>> THEN {}
    ELSE {u \in Users \ ADMIN_IDS : Eligible(u) /\ PreferenceOn(u)}
         \cup {a \in ADMIN_IDS : PreferenceOn(a)}

\* C9: a call of the resolver returns nobody when the toggle is off, and
\* otherwise exactly, in ascending order, the non-administrators that are
\* approved or completed with a preference that is true or unset, and the
\* administrators with a preference that is true or unset.
C9_RecipientSet ==
    last.op = "gather" => last.recipients = sorted(ExpectedRecipients)

\* C10: a call of the resolver that directly follows another call returns what
\* the call before it returned.
C10_Idempotent ==
    last.op = "gather" /\ last.repeat => last.recipients = last.before

\* a second call in a row, after the first one had stored the default for
\* somebody whose preference was unset, returned somebody else besides an
\* administrator
C10_Witness ==
    /\ last.op = "gather" /\ last.repeat
    /\ Len(last.recipients) >= 2
    /\ \E u \in Users \ ADMIN_IDS : personal_signals[u] = _pref(TRUE)

----------------------------------------------------------------------------
(* The plan builder on its own: the process starts at some time of day with   *)
(* some stored settings, and the administrator's handlers rebuild the plan;   *)
(* the clock moves only by the stall inside a build.                          *)

PlanHours == {<<9, 0, 9, 1>>, <<9, 0, 9, 0>>, <<12, 0, 9, 0>>, <<25, 0, 26, 0>>}
PlanRanges == {<<0, 0>>, <<1, MaxCount>>, <<MaxCount, MaxCount>>, <<MaxCount, 0>>}
BuildLags == {0, 5, 12}

\* the process starts on the last of the days, at one of the times of day
InitPlan ==
    /\ now \in {MaxDay * DaySeconds + p : p \in PlanSeconds}
    /\ signals_enabled \in {<<1>>, <<0>>}
    /\ working_hours \in PlanHours
    /\ signals_range \in PlanRanges
    /\ state = [date |-> NoDate, target |-> 0, sent |-> 0]
    /\ jobs = <<>>
    /\ timers = {}
    /\ refreshAt = NoTime
    /\ tasks = {}
    /\ last = [op |-> "init"]
    /\ hist = NoHist
    /\ SomeRecipients

NextPlan ==
    \/ PostInit(BuildLags)
    \/ \E desired \in BOOLEAN : AdminToggle(desired, BuildLags)
    \/ \E hours \in PlanHours : SetWorkingHours(hours, BuildLags)
    \/ \E range_value \in PlanRanges : SetSignalRange(range_value, BuildLags)

SpecPlan == InitPlan /\ [][NextPlan]_vars

\* the last step ran the plan builder
Built ==
    /\ last.op \in {"post_init", "refresh", "admin_toggle", "set_working_hours",
                     "set_signal_range", "manual_finish"}
    /\ last.build # None

\* the stored settings the build read, taken as the administrator typed them
ToggleOn == last.build.toggle = <<1>>
RangeOrdered == last.build.range[1] <= last.build.range[2]
HoursValid ==
    /\ last.build.hours[1] <= 23 /\ last.build.hours[2] <= 59
    /\ last.build.hours[3] <= 23 /\ last.build.hours[4] <= 59
\* the window the build works with: the stored one, or 09:00-12:00 in its place
WindowStart ==
    Day(last.build.at) * DaySeconds
    + (IF HoursValid THEN last.build.hours[1] * 3600 + last.build.hours[2] * 60
       ELSE 9 * 3600)
WindowEnd ==
    Day(last.build.at) * DaySeconds
    + (IF HoursValid THEN last.build.hours[3] * 3600 + last.build.hours[4] * 60
       ELSE 12 * 3600)

TimerOf(id) == CHOOSE t \in timers : t.id = id

\* C4 as written: whenever the builder runs with the toggle on and a parsable
\* range [lower, upper], the recorded target lies in lower .. upper, and with
\* lower = upper = 0 the target is 0 and nothing is scheduled.
C4_Original ==
    Built /\ ToggleOn /\ RangeOrdered =>
        /\ last.build.range[1] <= state.target
        /\ state.target <= last.build.range[2]
        /\ (last.build.range = <<0, 0>> =>
               state.target = 0 /\ jobs = <<>> /\ timers = {})

\* C4 amended: the same when the window's start precedes its end; when it does
\* not, the recorded target is 0 whatever the range.
C4_TargetInRange ==
    Built /\ ToggleOn /\ RangeOrdered =>
        /\ (WindowStart < WindowEnd =>
               /\ last.build.range[1] <= state.target
               /\ state.target <= last.build.range[2])
        /\ (WindowStart >= WindowEnd => state.target = 0)
        /\ (last.build.range = <<0, 0>> =>
               state.target = 0 /\ jobs = <<>> /\ timers = {})

\* a build with an ordered window recorded the upper bound of a range whose
\* lower bound is smaller, and scheduled it
C4_Witness ==
    /\ Built /\ ToggleOn /\ RangeOrdered /\ WindowStart < WindowEnd
    /\ last.build.range[1] < last.build.range[2]
    /\ state.target = last.build.range[2]
    /\ Len(jobs) = state.target

\* C5: after a build, every registered pair has its delivery timer inside
\* [windowStart, windowEnd) of the build's day, and its warning timer exactly
\* AUTO_SIGNAL_WARNING_SECONDS before the delivery, or at the build's second
\* clock reading when that is later; never earlier than that lead.
C5_TimersInWindow ==
    Built =>
        \A i \in DOMAIN jobs :
            LET d == TimerOf(jobs[i].delivery)
                wn == TimerOf(jobs[i].warning)
            IN /\ jobs[i].delivery # NoJob /\ jobs[i].warning # NoJob
               /\ d.kind = "delivery" /\ wn.kind = "warning"
               /\ WindowStart <= d.at /\ d.at < WindowEnd
               /\ wn.at = Max(d.at - AUTO_SIGNAL_WARNING_SECONDS, now)
               /\ d.at - wn.at <= AUTO_SIGNAL_WARNING_SECONDS

\* a stalled build registered a pair whose warning is clamped to the clock,
\* and a pair whose warning keeps the full lead
C5_Witness ==
    /\ Built /\ last.build.lag > 0 /\ Len(jobs) >= 2
    /\ \E i \in DOMAIN jobs :
          TimerOf(jobs[i].warning).at = now
          /\ TimerOf(jobs[i].delivery).at - now < AUTO_SIGNAL_WARNING_SECONDS
    /\ \E i \in DOMAIN jobs :
          TimerOf(jobs[i].delivery).at - TimerOf(jobs[i].warning).at
              = AUTO_SIGNAL_WARNING_SECONDS

\* C6: after a build that found the toggle off or the stored range unparsable
\* the day state is {date: today, target: 0, sent: 0}, the active set is empty
\* and no timer is registered.
C6_NothingPlanned ==
    Built /\ (~ToggleOn \/ ~RangeOrdered) =>
        /\ state = [date |-> Day(last.build.at), target |-> 0, sent |-> 0]
        /\ jobs = <<>>
        /\ timers = {}

\* a build that found the range unparsable with the toggle on cancelled a
\* plan that was pending
C6_Witness ==
    /\ Built /\ ToggleOn /\ ~RangeOrdered
    /\ last.build.pending >= 1 /\ last.build.cancelled >= 2
    /\ timers = {}

----------------------------------------------------------------------------
(* Properties of the engine *)

\* C1: in every reachable state, whatever the interleaving of delivery
\* callbacks, manual triggers and plan rebuilds, the day's sent counter does
\* not exceed the day's target.
C1_SentWithinTarget == state.sent <= state.target

\* C2: once a manual trigger that passed its checks has returned, the day's
\* target is what it was before the trigger and the remaining quota is exactly
\* one less than before the trigger.
C2_ManualConsumesOne ==
    last.op = "manual_finish" =>
        /\ state.target = last.target_before
        /\ _auto_signal_remaining(state) = last.remaining_before - 1

\* C3: with the toggle, the working hours and the count range left unchanged
\* during a day, the number of Delivery Pipeline runs of that day, scheduled
\* and manual together, does not exceed the target planned for the day (the
\* largest target a build of that day recorded).
C3_RunsWithinPlan == hist.planned # NoPlan => hist.runs <= hist.planned

\* C7: with N >= 1 pending pairs cancelOne removes the most recently
\* registered pair from the active set, cancels every live timer of that pair
\* and no other, returns true and leaves the day state alone; with no pending
\* pair it changes nothing and returns false.
C7_CancelOne ==
    LET N == Len(jobs)
        r == _cancel_one_scheduled_auto_job(World)
        top == jobs[N]
        mine == {t \in timers : t.id \in {top.warning, top.delivery}}
    IN IF N >= 1
       THEN /\ r.cancelled
            /\ mine # {}
            /\ r.w = [World EXCEPT !.jobs = SubSeq(jobs, 1, N - 1),
                                   !.timers = timers \ mine]
       ELSE r = [w |-> World, cancelled |-> FALSE]

\* a manual trigger has just cancelled the last of at least two pending pairs
C7_Witness ==
    /\ last.op = "manual_trigger" /\ last.cancelled /\ last.pending >= 2
    /\ Len(jobs) = last.pending - 1

\* C8: cancelAll leaves the active set empty and no timer of the engine live,
\* and changes neither the day's sent counter nor its target.
C8_CancelAll ==
    LET w == _clear_auto_signal_jobs(World)
    IN w = [World EXCEPT !.jobs = <<>>, !.timers = {}]

\* a rebuild has just cancelled the timers of a plan that was still pending
C8_Witness ==
    /\ last.op \in {"refresh", "set_working_hours", "set_signal_range",
                     "admin_toggle", "manual_finish"}
    /\ last.build # None
    /\ last.build.pending >= 1
    /\ last.build.cancelled >= 2

----------------------------------------------------------------------------
(* _prepare_caption_text on its own *)

\* nothing of the engine is running or stored
Quiescent ==
    /\ now = 0
    /\ signals_enabled = <<1>>
    /\ working_hours = DEFAULT_WORKING_HOURS
    /\ signals_range = DEFAULT_SIGNALS_RANGE
    /\ state = [date |-> NoDate, target |-> 0, sent |-> 0]
    /\ jobs = <<>>
    /\ timers = {}
    /\ refreshAt = NoTime
    /\ tasks = {}
    /\ hist = NoHist
    /\ NoRecipients

InitCaption ==
    /\ Quiescent
    /\ \E text \in Texts : last = [op |-> "rendered", text |-> text]

\* line 1858: caption, was_truncated = _prepare_caption_text(raw_caption)
PrepareCaption ==
    /\ last.op = "rendered"
    /\ LET r == _prepare_caption_text(last.text, TELEGRAM_CAPTION_LIMIT)
       IN last' = [op |-> "prepare_caption", text |-> last.text,
                   caption |-> r.text, was_truncated |-> r.was_truncated]
    /\ UNCHANGED <<now, signals_enabled, working_hours, signals_range, state, jobs,
                   timers, refreshAt, tasks, applications, user_stages,
                   personal_signals, cache, hist>>

NextCaption == PrepareCaption

SpecCaption == InitCaption /\ [][NextCaption]_vars

Prepared == last.op = "prepare_caption"
TooLong == Len(last.text) > TELEGRAM_CAPTION_LIMIT
EndsWithMarker ==
    /\ Len(last.caption) >= Len(ellipsis)
    /\ SubSeq(last.caption, Len(last.caption) - Len(ellipsis) + 1, Len(last.caption))
         = ellipsis
\* the part of the caption in front of the marker
Kept == SubSeq(last.caption, 1, Len(last.caption) - Len(ellipsis))
\* where the text is cut to leave room for the marker
CutAt == TELEGRAM_CAPTION_LIMIT - Len(ellipsis)

\* C11 as stated: a text longer than the limit comes back exactly as long as
\* the limit, ending with the marker and flagged as truncated; a text at or
\* under the limit comes back unchanged and not flagged.
C11_Original ==
    Prepared =>
        IF TooLong
        THEN /\ Len(last.caption) = TELEGRAM_CAPTION_LIMIT
             /\ EndsWithMarker
             /\ last.was_truncated
        ELSE last.caption = last.text /\ ~last.was_truncated

\* C11: a text longer than the limit comes back flagged as truncated, ending
\* with the marker and no longer than the limit: in front of the marker stands
\* the text's prefix up to the cut with the whitespace at its end removed, so
\* the caption is exactly as long as the limit when the character at the cut is
\* not whitespace and shorter when it is.  A text at or under the limit comes
\* back unchanged and not flagged.
C11_Truncation ==
    Prepared =>
        IF TooLong
        THEN /\ last.was_truncated
             /\ EndsWithMarker
             /\ Len(last.caption) <= TELEGRAM_CAPTION_LIMIT
             /\ Len(Kept) <= CutAt
             /\ \A k \in 1 .. Len(Kept) : Kept[k] = last.text[k]
             /\ Len(Kept) > 0 => Kept[Len(Kept)] \notin Whitespace
             /\ \A k \in Len(Kept) + 1 .. CutAt : last.text[k] \in Whitespace
             /\ (Len(last.caption) = TELEGRAM_CAPTION_LIMIT)
                    <=> (last.text[CutAt] \notin Whitespace)
        ELSE last.caption = last.text /\ ~last.was_truncated

\* a text over the limit with whitespace at the cut has been truncated to a
\* caption shorter than the limit
C11_Witness ==
    /\ Prepared /\ TooLong
    /\ last.text[CutAt] \in Whitespace
    /\ Len(Kept) > 0
    /\ Len(last.caption) < TELEGRAM_CAPTION_LIMIT

----------------------------------------------------------------------------
(* Broadcast: _broadcast_manual_signal on its own, one step per send *)

\* every list of distinct users, the empty one included
RecipientLists ==
    {r \in UNION {[1 .. n -> Users] : n \in 0 .. NumUsers} :
        \A i, j \in 1 .. Len(r) : i # j => r[i] # r[j]}

InitBroadcast ==
    /\ now = 0
    /\ signals_enabled = <<1>>
    /\ working_hours = DEFAULT_WORKING_HOURS
    /\ signals_range = DEFAULT_SIGNALS_RANGE
    /\ state = [date |-> NoDate, target |-> 0, sent |-> 0]
    /\ jobs = <<>>
    /\ timers = {}
    /\ refreshAt = NoTime
    /\ hist = NoHist
    /\ NoRecipients
    /\ \E recipients \in RecipientLists :
         /\ tasks = {[kind |-> "broadcast", pc |-> "send", todo |-> recipients,
                      acc |-> [delivered |-> 0, failed |-> <<>>, raised |-> FALSE]]}
         /\ last = [op |-> "broadcast", recipients |-> recipients,
                    attempts |-> <<>>, returned |-> None, raised |-> FALSE]

\* one pass of the loop: the send to the next recipient returns (ok) or raises
\* TelegramError
BroadcastSend(tk, ok) ==
    /\ tk \in tasks /\ tk.kind = "broadcast" /\ tk.pc = "send"
    /\ tk.todo # <<>>
    /\ LET user_id == Head(tk.todo)
           acc == _after_send(tk.acc, user_id, ok)
       IN /\ tasks' = IF acc.raised THEN tasks \ {tk}
                      ELSE (tasks \ {tk}) \cup {[tk EXCEPT !.todo = Tail(@), !.acc = acc]}
          /\ last' = [last EXCEPT !.attempts = Append(@, [to |-> user_id, ok |-> ok]),
                                  !.raised = acc.raised]
    /\ UNCHANGED <<now, signals_enabled, working_hours, signals_range, state, jobs,
                   timers, refreshAt, applications, user_stages, personal_signals,
                   cache, hist>>

\* line 3079: return delivered, failed
BroadcastReturn(tk) ==
    /\ tk \in tasks /\ tk.kind = "broadcast" /\ tk.pc = "send"
    /\ tk.todo = <<>>
    /\ tasks' = tasks \ {tk}
    /\ last' = [last EXCEPT !.returned = [delivered |-> tk.acc.delivered,
                                          failed |-> tk.acc.failed]]
    /\ UNCHANGED <<now, signals_enabled, working_hours, signals_range, state, jobs,
                   timers, refreshAt, applications, user_stages, personal_signals,
                   cache, hist>>

NextBroadcast ==
    \/ \E tk \in tasks, ok \in BOOLEAN : BroadcastSend(tk, ok)
    \/ \E tk \in tasks : BroadcastReturn(tk)

SpecBroadcast == InitBroadcast /\ [][NextBroadcast]_vars

\* the recipients whose send failed, in the order of the attempts
FailedAttempts ==
    LET bad == {i \in 1 .. Len(last.attempts) : ~last.attempts[i].ok}
    IN [k \in 1 .. Cardinality(bad) |->
           last.attempts[CHOOSE i \in bad : Cardinality({j \in bad : j <= i}) = k].to]

\* C12: whichever sends fail, the broadcast does not raise; when it is over it
\* has returned, it has attempted every recipient once, in order, the list of
\* failed recipients is exactly the recipients whose send failed, and
\* delivered + len(failed) = len(recipients).
C12_Broadcast ==
    /\ ~last.raised
    /\ tasks = {} =>
         /\ last.returned # None
         /\ [i \in 1 .. Len(last.attempts) |-> last.attempts[i].to] = last.recipients
         /\ last.returned.failed = FailedAttempts
         /\ last.returned.delivered + Len(last.returned.failed) = Len(last.recipients)

\* a broadcast to three recipients has returned after the first send failed and
\* a later one succeeded
C12_Witness ==
    /\ last.returned # None
    /\ Len(last.recipients) = NumUsers
    /\ ~last.attempts[1].ok
    /\ last.returned.delivered >= 1
    /\ Len(last.returned.failed) >= 1

----------------------------------------------------------------------------
(* The pipeline's outcomes: the engine with the settings handlers left out     *)
(* but for the workspace toggle, every snapshot fetch returning a snapshot or  *)
(* nothing, the rendered caption exceeding the limit, every send returning    *)
(* or failing.                                                                 *)

InitRun ==
    /\ InitEngine
    /\ hist = NoHist
    /\ (SomeRecipients \/ NoRecipients)

NextRun ==
    \/ PostInit({0})
    \/ RefreshJob({0})
    \/ Tick
    \/ AtProbe /\ \E admin \in ADMIN_IDS, desired \in BOOLEAN : WorkspaceToggle(admin, desired)
    \/ \E t \in timers : WarningJob(t)
    \/ \E t \in timers : DeliveryJob(t)
    \/ AtProbe /\ ManualTrigger
    \/ \E tk \in tasks : WarnOne(tk)
    \/ \E tk \in tasks : ManualWake(tk)
    \/ \E tk \in tasks : FetchDone(tk, BOOLEAN, {RenderedLong})
    \/ \E tk \in tasks : SendOne(tk, BOOLEAN)
    \/ \E tk \in tasks : ManualFinish(tk, {0})

SpecRun == InitRun /\ [][NextRun]_vars

RunOps == {"delivery_job", "manual_wake", "fetch_done", "send_one"}

\* C13: every step in which a run of the pipeline returns (a skip with the
\* toggle off, a run with nobody to send to, with or without a snapshot, with
\* any of its sends failed) leaves the day's sent counter one higher than the
\* step found it.
C13_CountsOne ==
    [][(last'.op \in RunOps /\ last'.returned # None)
          => last'.counted = state.sent + 1]_vars

\* a run that had no snapshot and whose two sends both failed has returned and
\* counted
C13_Witness ==
    /\ last.op = "send_one"
    /\ last.returned # None
    /\ last.returned.delivered = 0
    /\ Len(last.returned.failed) = 2
    /\ state.sent >= 1

\* a step in which a run of the pipeline starts and finds the toggle off
StartsSwitchedOff ==
    /\ ~get_global_signals(World)
    /\ \/ last'.op = "delivery_job" /\ last'.ran
       \/ last'.op = "manual_wake"

\* the coroutines waiting for the snapshot source or for a send
Contacting(ts) == {tk \in ts : tk.pc \in {"fetch", "send"}}

\* C14: a run of the pipeline that starts with the global toggle off ends in
\* the same step: it resolves and contacts no recipient, does not wait for the
\* snapshot source, counts the signal as sent and returns 0 delivered, no
\* failed recipient and wasTruncated = false.
C14_ToggleOffSkip ==
    [][StartsSwitchedOff =>
          /\ last'.returned = Skipped
          /\ last'.counted = state.sent + 1
          /\ state'.sent = state.sent + 1
          /\ state'.target = state.target
          /\ Contacting(tasks') \subseteq Contacting(tasks)
          /\ cache' = cache]_vars

\* a delivery callback has run the pipeline with the toggle off while a
\* user was approved to receive: the signal is counted, nothing is in flight
C14_Witness ==
    /\ last.op = "delivery_job" /\ last.ran
    /\ ~get_global_signals(World)
    /\ last.returned = Skipped
    /\ \E u \in Users : applications[u] = "approved" /\ user_stages[u] = STAGE_COMPLETED
    /\ state.sent >= 1
    /\ tasks = {}

----------------------------------------------------------------------------
(* The manual trigger's early returns *)

\* the administrator has pressed the trigger with nothing left of the day's
\* quota
TriggeredAtZero == last'.op = "manual_trigger" /\ state.target <= state.sent

NothingElseDone == UNCHANGED <<state, jobs, timers, tasks, cache, personal_signals>>

----------------------------------------------------------------------------
(* Warning and signal of one lifecycle: the day of the engine with the        *)
(* settings left alone and every warning that is sent logged in hist.warned.  *)
(* A signal is named by the delivery time its two jobs carry in their names.  *)

\* user 1 is approved and the administrator's preference is stored as off:
\* user 1 alone receives
OneRecipient ==
    /\ applications = [u \in Users |-> IF u = 1 THEN "approved" ELSE "none"]
    /\ user_stages = [u \in Users |-> IF u = 1 THEN STAGE_COMPLETED ELSE "none"]
    /\ personal_signals = [u \in Users |-> IF u \in ADMIN_IDS THEN "off" ELSE NoPref]
    /\ cache = [u \in Users |-> NoPref]

InitLead ==
    /\ InitEngine
    /\ hist = [NoHist EXCEPT !.timing = TRUE]
    /\ OneRecipient

NextLead ==
    \/ PostInit({0})
    \/ RefreshJob({0})
    \/ Tick
    \/ \E t \in timers : WarningJob(t)
    \/ \E t \in timers : DeliveryJob(t)
    \/ AtProbe /\ ManualTrigger
    \/ \E tk \in tasks : WarnOne(tk)
    \/ \E tk \in tasks : ManualWake(tk)
    \/ \E tk \in tasks : FetchDone(tk, {TRUE}, {RenderedShort})
    \/ \E tk \in tasks : SendOne(tk, {TRUE})
    \/ \E tk \in tasks : ManualFinish(tk, {0})

SpecLead == InitLead /\ [][NextLead]_vars

\* the warnings of the signal just sent that went to the same recipient
WarningsOfLast == {wn \in hist.warned : wn.to = last.to /\ wn.sig = last.sig}

\* C16: a recipient to whom a signal has just been sent was sent the warning of
\* that signal at least AUTO_SIGNAL_WARNING_SECONDS earlier, or at any earlier
\* instant when the warning job was scheduled less than that before the
\* delivery job (the lead clamped when the pair was scheduled).
C16_LeadTime ==
    last.op = "send_one" =>
        \E wn \in WarningsOfLast :
            IF wn.lead >= AUTO_SIGNAL_WARNING_SECONDS
            THEN now - wn.at >= AUTO_SIGNAL_WARNING_SECONDS
            ELSE now - wn.at >= 0

----------------------------------------------------------------------------
(* The life of a scheduled pair *)

\* the delivery jobs that leave the job queue in this step
DeliveriesGone == {t \in timers : t.kind = "delivery" /\ t \notin timers'}

\* the delivery job whose callback runs in this step
FiresNow(t) == last'.op = "delivery_job" /\ t.at <= now

\* the warning job registered with this delivery job is still in the queue
WarningPending(t) ==
    \E i \in 1 .. Len(jobs) :
        /\ jobs[i].delivery = t.id
        /\ jobs[i].warning # NoJob
        /\ \E wt \in timers : wt.id = jobs[i].warning

\* C17: a pair goes Pending -> WarningFired -> DeliveryFired or Pending ->
\* Cancelled and no other way: a delivery job that fires belongs to a pair whose
\* warning job has fired, and a delivery job that is cancelled (by cancelOne or
\* cancelAll) belongs to a pair whose warning job is still pending.
C17_PairLifecycle ==
    [][\A t \in DeliveriesGone :
          IF FiresNow(t) THEN ~WarningPending(t) ELSE WarningPending(t)]_vars

----------------------------------------------------------------------------
(* What a rebuild leaves behind *)

BuildOps == {"post_init", "refresh", "admin_toggle", "set_working_hours",
             "set_signal_range", "manual_finish"}

\* _setup_auto_signals_for_today has run in this step
Rebuilds == last'.op \in BuildOps /\ last'.build # None

\* the jobs the entries of the active set refer to
Registered(js) == {js[i].warning : i \in 1 .. Len(js)} \cup {js[i].delivery : i \in 1 .. Len(js)}

\* C18: when a rebuild returns, every job that was live before it has been
\* cancelled, the day state carries today's date and sent = 0, the active set
\* holds at most target pairs, and the live jobs are exactly the two jobs of
\* each of these pairs, none of them due yet.
C18_RebuildInvalidates ==
    [][Rebuilds =>
          /\ last'.build.cancelled = Cardinality(timers)
          /\ state'.date = Day(now')
          /\ state'.sent = 0
          /\ Len(jobs') <= state'.target
          /\ {t.id : t \in timers'} = Registered(jobs')
          /\ Cardinality(timers') = 2 * Len(jobs')
          /\ \A t \in timers' : t.at >= now']_vars

\* a change of the count range has replaced a plan of which three jobs or more
\* were still live by a new plan with a pending pair
C18_Witness ==
    /\ last.op = "set_signal_range"
    /\ last.build.pending >= 1
    /\ last.build.cancelled >= 3
    /\ Len(jobs) >= 1
    /\ state.sent = 0

----------------------------------------------------------------------------
(* The counter within a day *)

\* C19: as long as the day state keeps its date, no step lowers the day's sent
\* counter.
C19_SentMonotone ==
    [][(state.date # NoDate /\ state'.date = state.date)
          => state'.sent >= state.sent]_vars

----------------------------------------------------------------------------
(* The administrator's signals view, through the end of the day *)

\* handle_admin_actions, "admin:signals": _send_admin_signals_view reads the day
\* state through _ensure_auto_signal_state and renders sent, target, remaining
SignalsView ==
    /\ Running /\ HandlerIdle
    /\ \E draw \in DrawsIf(World, NeedsSetup(World), {0}) :
         LET w == _ensure_auto_signal_state(World, draw)
         IN /\ Commit(w)
            /\ hist' = IF NeedsSetup(World) THEN HistPlan(hist, w) ELSE hist
            /\ last' = [op |-> "signals_view", target |-> w.state.target,
                        sent |-> w.state.sent,
                        remaining |-> _auto_signal_remaining(w.state)]
            /\ UNCHANGED <<refreshAt, tasks>>

\* nothing more can happen today: the clock reaches 00:00 of the next day
Midnight ==
    /\ Running
    /\ \A d \in Deadlines : d > now
    /\ \A t \in TickTargets : t > now => Day(t) > Day(now)
    /\ now % DaySeconds # 0
    /\ now' = (Day(now) + 1) * DaySeconds
    /\ hist' = HistDay(hist, now')
    /\ last' = [op |-> "midnight"]
    /\ UNCHANGED <<signals_enabled, working_hours, signals_range, state, jobs, timers,
                   refreshAt, tasks, applications, user_stages, personal_signals, cache>>

\* the administrator opens the view at the probe instants and at midnight
AtView == AtProbe \/ now % DaySeconds = 0

InitView ==
    /\ InitEngine
    /\ hist = NoHist
    /\ SomeRecipients

NextView ==
    \/ PostInit({0})
    \/ RefreshJob({0})
    \/ Tick
    \/ Midnight
    \/ \E t \in timers : WarningJob(t)
    \/ \E t \in timers : DeliveryJob(t)
    \/ \E tk \in tasks : WarnOne(tk)
    \/ \E tk \in tasks : FetchDone(tk, {TRUE}, {RenderedShort})
    \/ \E tk \in tasks : SendOne(tk, {TRUE})
    \/ AtView /\ SignalsView

SpecView == InitView /\ [][NextView]_vars

\* C20: rendering the signals view reports remaining = max(target - sent, 0) of
\* the day state it found and changes neither the day state nor the job queue
\* nor the active set.
C20_ViewReadOnly ==
    [][last'.op = "signals_view" =>
          /\ last'.remaining = Max(state.target - state.sent, 0)
          /\ UNCHANGED <<state, timers, jobs>>]_vars

----------------------------------------------------------------------------
(* The toggle and the plan *)

\* C21: whenever the global toggle is off and no update handler is under way
\* (the operation that switched it off has completed), no warning or delivery
\* job is in the queue and the active set is empty.
C21_OffMeansNoTimers ==
    (Running /\ HandlerIdle /\ ~get_global_signals(World)) =>
        timers = {} /\ jobs = <<>>

----------------------------------------------------------------------------
(* An exception inside the pipeline: the day of the engine with the settings  *)
(* left alone, and a run of the pipeline that can end in an exception.        *)

InitRaise ==
    /\ InitEngine
    /\ hist = [NoHist EXCEPT !.on = TRUE]
    /\ (SomeRecipients \/ NoRecipients)

NextRaise ==
    \/ PostInit({0})
    \/ RefreshJob({0})
    \/ Tick
    \/ \E t \in timers : WarningJob(t)
    \/ \E t \in timers : DeliveryJob(t)
    \/ AtProbe /\ ManualTrigger
    \/ \E tk \in tasks : WarnOne(tk)
    \/ \E tk \in tasks : ManualWake(tk)
    \/ \E tk \in tasks : FetchDone(tk, {TRUE}, {RenderedShort})
    \/ \E tk \in tasks : SendOne(tk, {TRUE})
    \/ \E tk \in tasks : PipelineRaises(tk)
    \/ \E tk \in tasks : ManualFinish(tk, {0})

SpecRaise == InitRaise /\ [][NextRaise]_vars

\* C22: when an exception ends a manual trigger that had cancelled a pending
\* pair for itself, the handler has either counted the signal as sent or
\* rebuilt the plan by the time it ends.
C22_ErrorLeavesConsistent ==
    [][(last'.op = "pipeline_raises" /\ last'.kind = "manual" /\ last'.cancelled)
          => (state'.sent = state.sent + 1 \/ Rebuilds)]_vars

----------------------------------------------------------------------------
(* Working hours that cannot be parsed *)

\* the state the step leaves, as the builder's functions see it
WorldAfter ==
    [now |-> now', enabled |-> signals_enabled', hours |-> working_hours',
     range |-> signals_range', state |-> state', jobs |-> jobs', timers |-> timers',
     apps |-> applications', stages |-> user_stages', ps |-> personal_signals',
     ch |-> cache']

\* the build of this step got as far as resolving the window (toggle on, count
\* range parsable) and read working hours that name no time of day
ReadsInvalidHours ==
    /\ Rebuilds
    /\ last'.build.toggle = <<1>>
    /\ _parse_signal_range_bounds(last'.build.range) # None
    /\ _parse_working_hours_window(last'.build.hours) = None

\* what the build of this step started from, had the default hours been stored
AsIfDefault ==
    [World EXCEPT !.enabled = last'.build.toggle, !.range = last'.build.range,
                  !.hours = DEFAULT_WORKING_HOURS]

\* C23: a build that resolves its window from working hours it cannot parse
\* (and the resolver given an empty string) works with 09:00-12:00: it leaves exactly
\* what a build from the same state with 09:00-12:00 stored leaves, the stored
\* hours included, and every delivery job lies in 09:00-12:00 of the day.
C23_DefaultWindow ==
    [][ReadsInvalidHours =>
          /\ _resolve_auto_signal_window(None).window
                = <<AUTO_SIGNAL_START_TIME, AUTO_SIGNAL_END_TIME>>
          /\ working_hours' = DEFAULT_WORKING_HOURS
          /\ \E draw \in Draws(AsIfDefault, {last'.build.lag}) :
                /\ draw.target = last'.build.drawn
                /\ WorldAfter = _setup_auto_signals_for_today(AsIfDefault, draw)
          /\ \A t \in timers' :
                t.kind = "delivery" =>
                    /\ Day(now') * DaySeconds + AUTO_SIGNAL_START_TIME <= t.at
                    /\ t.at < Day(now') * DaySeconds + AUTO_SIGNAL_END_TIME]_vars

\* a build at 08:00 that read hours naming no time of day has planned two
\* signals between 09:00 and 12:00 and stored the default hours
C23_Witness ==
    /\ Built /\ ToggleOn /\ RangeOrdered /\ ~HoursValid
    /\ working_hours = DEFAULT_WORKING_HOURS
    /\ state.target = 2 /\ Len(jobs) = 2
    /\ \A t \in timers : t.at >= AUTO_SIGNAL_START_TIME - AUTO_SIGNAL_WARNING_SECONDS
    /\ \E t \in timers : t.kind = "delivery" /\ t.at > AUTO_SIGNAL_START_TIME + 3600

\* C24 as stated: a build with the toggle on that reads working hours or a
\* count range it cannot parse records target 0 and registers no job.
C24_Original ==
    Built /\ ToggleOn /\ (~HoursValid \/ ~RangeOrdered) =>
        /\ state.target = 0
        /\ jobs = <<>>
        /\ timers = {}

\* C24: a build with the toggle on that reads a count range it cannot parse
\* records target 0 and registers no job; one that reads a parsable range and
\* working hours it cannot parse stores the default hours in their place,
\* records a target inside the range and, when it runs before 09:00, registers
\* a pair of jobs for every signal of the target.
C24_UnparsableSettings ==
    Built /\ ToggleOn =>
        /\ ~RangeOrdered =>
              state.target = 0 /\ jobs = <<>> /\ timers = {}
        /\ (RangeOrdered /\ ~HoursValid) =>
              /\ working_hours = DEFAULT_WORKING_HOURS
              /\ last.build.range[1] <= state.target
              /\ state.target <= last.build.range[2]
              /\ last.build.at < WindowStart =>
                    Len(jobs) = state.target /\ Cardinality(timers) = 2 * state.target

\* a build at 08:00 that read unparsable hours and the range 1-2 has recorded a
\* target of at least 1 and registered its jobs
C24_Witness ==
    /\ Built /\ ToggleOn /\ RangeOrdered /\ ~HoursValid
    /\ last.build.at < WindowStart
    /\ last.build.range[1] >= 1
    /\ state.target >= 1
    /\ timers # {}

----------------------------------------------------------------------------
(* The administrator's manual signal: _finalize_manual_signal                 *)
(*                                                                            *)
(* A text is the sequence of its characters.  A line of n characters is       *)
(* written as n - 1 filler characters followed by one character that names    *)
(* the line, so a line is in a text exactly when its name is; indented lines  *)
(* start with their three blanks.  The lengths are those of the English       *)
(* literals of the source file as Python reads them.                          *)

Line(name, n) == [k \in 1 .. n |-> IF k = n THEN name ELSE "x"]
Indented(name, n) == [k \in 1 .. n |-> IF k = n THEN name ELSE IF k <= 3 THEN " " ELSE "x"]

\* "\n".join(parts)
RECURSIVE join(_)
join(parts) ==
    IF parts = <<>> THEN <<>>
    ELSE IF Len(parts) = 1 THEN parts[1]
    ELSE parts[1] \o <<"nl">> \o join(Tail(parts))

SECTION_SEPARATOR == Line("separator", 36)
PRICE_SECTION_LABELS == Line("price_header", 17)
PRICE_VALUE_LABELS == [current |-> 13, support |-> 12, resistance |-> 15]
PRICE_VALUE_ICONS == [current |-> 4, support |-> 4, resistance |-> 4]
TECHNICALS_HEADER_LABELS == Line("technicals_header", 23)
TECHNICALS_CATEGORY_ORDER == <<"rsi", "macd", "bollinger", "pattern", "momentum">>
TECHNICALS_CATEGORY_LABELS ==
    [rsi |-> 7, macd |-> 4, bollinger |-> 15, pattern |-> 7, momentum |-> 8]
\* the fallback phrases of each category
TECHNICALS_SUMMARIES ==
    [rsi |-> <<10, 8, 10, 7>>, macd |-> <<10, 10, 14, 12>>,
     bollinger |-> <<10, 10, 13, 9>>, pattern |-> <<16, 11, 9, 13, 13>>,
     momentum |-> <<11, 13, 13, 13>>]
\* the phrases of the statuses an indicator can have
TECHNICALS_STATUS_TEXTS ==
    [rsi |-> <<10, 8, 7, 9, 9>>, macd |-> <<10, 10, 12, 14>>,
     bollinger |-> <<10, 10, 13, 9>>, pattern |-> <<13, 9, 13, 16, 11, 14>>,
     momentum |-> <<11, 13, 13, 13>>]
MARKET_VOLATILITY_OPTIONS == <<3, 8, 4>>
MARKET_SENTIMENT_OPTIONS == <<7, 7, 7>>
manual_signal_data_unavailable == Line("notice", 85)

\* a snapshot gives the three prices and the status of each indicator (0 for
\* a price or a status it does not give); this one stands for None
NoStatus == [key \in {"rsi", "macd", "bollinger", "pattern", "momentum"} |-> 0]
NoSnapshot == [close |-> 0, support |-> 0, resistance |-> 0, status |-> NoStatus]

\* the names of the lines
PriceLine ==
    [current |-> [dash |-> "current:dash", value |-> "current:value"],
     support |-> [dash |-> "support:dash", value |-> "support:value"],
     resistance |-> [dash |-> "resistance:dash", value |-> "resistance:value"]]
TechnicalLine ==
    [rsi |-> "technical:rsi", macd |-> "technical:macd",
     bollinger |-> "technical:bollinger", pattern |-> "technical:pattern",
     momentum |-> "technical:momentum"]

\* a price is the length of its text "{value:.5f}", 0 when it is None
\* renders a missing price as 0.00000
_build_price_levels_text_zero(current_value, support, resistance) ==
    LET _line(key, value) ==
            Indented(PriceLine[key].value,
                     3 + PRICE_VALUE_ICONS[key] + 1 + PRICE_VALUE_LABELS[key] + 2
                       + (IF value # 0 THEN value ELSE 7))
    IN join(<<PRICE_SECTION_LABELS, _line("current", current_value),
              _line("support", support), _line("resistance", resistance)>>)

\* lines 855-875; the placeholder for a missing price has three characters
_build_price_levels_text(current_value, support, resistance) ==
    LET _line(key, value) ==
            Indented(IF value # 0 THEN PriceLine[key].value ELSE PriceLine[key].dash,
                     3 + PRICE_VALUE_ICONS[key] + 1 + PRICE_VALUE_LABELS[key] + 2
                       + (IF value # 0 THEN value ELSE 3))
    IN join(<<PRICE_SECTION_LABELS, _line("current", current_value),
              _line("support", support), _line("resistance", resistance)>>)

\* lines 1001-1026: the categories in shuffled order; a category whose status
\* the snapshot does not give (status 0) gets one of its fallback phrases
_build_technicals_text(snapshot, categories, choice) ==
    LET summary(key) ==
            IF snapshot # NoSnapshot /\ snapshot.status[key] # 0
            THEN TECHNICALS_STATUS_TEXTS[key][snapshot.status[key]]
            ELSE TECHNICALS_SUMMARIES[key][Min(choice, Len(TECHNICALS_SUMMARIES[key]))]
        line(key) == Indented(TechnicalLine[key],
                              8 + TECHNICALS_CATEGORY_LABELS[key] + 2 + summary(key))
    IN join(<<TECHNICALS_HEADER_LABELS>>
            \o [i \in 1 .. Len(categories) |-> line(categories[i])])

\* lines 1029-1040; the volume has four digits
_build_market_overview_text(choice) ==
    join(<<Line("market_header", 19),
           Indented("market:volatility", 20 + MARKET_VOLATILITY_OPTIONS[choice]),
           Indented("market:sentiment", 19 + MARKET_SENTIMENT_OPTIONS[choice]),
           Indented("market:volume", 16 + 4)>>)

\* the two first lines: the pair has six letters, the direction is Buy or Sell,
\* the time is written with time_text characters
Heading(direction, time_text) ==
    <<Line("header", 5 + 6 + 2 + (IF direction = "buy" THEN 3 ELSE 4) + 1),
      Line("expiration", 17 + time_text + 4)>>

\* what the random module is asked for while a message is rendered
Shuffles == {TECHNICALS_CATEGORY_ORDER,
             <<"momentum", "pattern", "bollinger", "macd", "rsi">>}
Rolls == {[categories |-> c, phrase |-> p, market |-> m] :
             c \in Shuffles, p \in {1, 3, 5}, m \in {1, 2}}

\* lines 1043-1081
_format_manual_signal_message(direction, time_text, snapshot, roll) ==
    join(Heading(direction, time_text)
         \o <<<<>>, SECTION_SEPARATOR,
              _build_price_levels_text(snapshot.close, snapshot.support,
                                       snapshot.resistance),
              SECTION_SEPARATOR,
              _build_technicals_text(snapshot, roll.categories, roll.phrase),
              SECTION_SEPARATOR,
              _build_market_overview_text(roll.market)>>)

\* lines 1084-1129
_format_manual_signal_fallback(direction, time_text, notice, snapshot, roll) ==
    LET current_value == IF snapshot = NoSnapshot THEN 0 ELSE snapshot.close
        support == IF snapshot = NoSnapshot THEN 0 ELSE snapshot.support
        resistance == IF snapshot = NoSnapshot THEN 0 ELSE snapshot.resistance
    IN join(Heading(direction, time_text)
            \o <<<<>>>>
            \o (IF notice # <<>> THEN <<notice, <<>>>> ELSE <<>>)
            \o <<SECTION_SEPARATOR,
                 _build_price_levels_text(current_value, support, resistance),
                 SECTION_SEPARATOR,
                 _build_technicals_text(snapshot, roll.categories, roll.phrase),
                 SECTION_SEPARATOR,
                 _build_market_overview_text(roll.market)>>)

\* _bold: the text between the two tags (html.escape keeps every line)
_bold(text) == IF text = <<>> THEN text ELSE <<"<b>">> \o text \o <<"</b>">>

\* what the snapshot source can answer: None (written NoSnapshot); the close
\* price and one indicator but no pivot levels; everything
Snapshots ==
    {NoSnapshot,
     [close |-> 7, support |-> 0, resistance |-> 0,
      status |-> [NoStatus EXCEPT !["rsi"] = 4]],
     [close |-> 9, support |-> 9, resistance |-> 9,
      status |-> [key \in DOMAIN NoStatus |-> 3]]}

\* the time the administrator chose, as the length of its text: 5, 0.25, and
\* the largest number float() accepts
TimeTexts == {1, 4, 309}

\* the handler is entered with the pair, the direction and the time chosen
InitManual ==
    /\ now = 0
    /\ signals_enabled \in {<<1>>, <<0>>}
    /\ working_hours = DEFAULT_WORKING_HOURS
    /\ signals_range = DEFAULT_SIGNALS_RANGE
    /\ state = [date |-> NoDate, target |-> 0, sent |-> 0]
    /\ jobs = <<>>
    /\ timers = {}
    /\ refreshAt = NoTime
    /\ hist = NoHist
    /\ (SomeRecipients \/ NoRecipients)
    /\ last = [op |-> "init"]
    /\ \E direction \in {"buy", "sell"}, time_text \in TimeTexts :
          tasks = {[kind |-> "finalize", pc |-> "start", direction |-> direction,
                    time |-> time_text, todo |-> <<>>, snapshot |-> NoSnapshot,
                    caption |-> <<>>, was_truncated |-> FALSE]}

\* lines 3088-3133: the checks, up to the await of the snapshot fetch
FinalizeManualSignal(tk) ==
    /\ tk \in tasks /\ tk.kind = "finalize" /\ tk.pc = "start"
    /\ LET w0 == _ensure_bot_defaults(World)
           gathered == _gather_signal_recipients(w0)
       IN IF ~get_global_signals(w0)
          THEN /\ Commit(w0)
               /\ tasks' = tasks \ {tk}
               /\ last' = [op |-> "manual_summary", notice |-> "signals_disabled"]
          ELSE IF gathered.recipients = <<>>
          THEN /\ Commit(gathered.w)
               /\ tasks' = tasks \ {tk}
               /\ last' = [op |-> "manual_summary", notice |-> "no_recipients"]
          ELSE /\ Commit(gathered.w)
               /\ tasks' = (tasks \ {tk}) \cup
                           {[tk EXCEPT !.pc = "fetch", !.todo = gathered.recipients]}
               /\ last' = [op |-> "manual_fetch"]
    /\ UNCHANGED <<refreshAt, hist>>

\* lines 3134-3182: the fetch has returned; the message is rendered and cut to
\* the caption limit
FinalizeManualRender(tk) ==
    /\ tk \in tasks /\ tk.kind = "finalize" /\ tk.pc = "fetch"
    /\ \E snapshot \in Snapshots, roll \in Rolls :
         LET has_price_levels ==
                 /\ snapshot # NoSnapshot
                 /\ snapshot.close # 0 /\ snapshot.support # 0
                 /\ snapshot.resistance # 0
             raw_caption ==
                 IF has_price_levels
                 THEN _format_manual_signal_message(tk.direction, tk.time, snapshot, roll)
                 ELSE _format_manual_signal_fallback(
                          tk.direction, tk.time, manual_signal_data_unavailable,
                          snapshot, roll)
             prepared == _prepare_caption_text(raw_caption, TELEGRAM_CAPTION_LIMIT)
         IN /\ tasks' = (tasks \ {tk}) \cup
                        {[tk EXCEPT !.pc = "send", !.snapshot = snapshot,
                                    !.caption = prepared.text,
                                    !.was_truncated = prepared.was_truncated]}
            /\ last' = [op |-> "manual_render", raw |-> Len(raw_caption)]
    /\ UNCHANGED <<now, signals_enabled, working_hours, signals_range, state, jobs,
                   timers, refreshAt, applications, user_stages, personal_signals,
                   cache, hist>>

\* a broadcast that counted itself among the day's signals, as the day's own
\* runs do
FinalizeManualSendCounted(tk, ok) ==
    /\ tk \in tasks /\ tk.kind = "finalize" /\ tk.pc = "send"
    /\ tasks' = IF Tail(tk.todo) = <<>> THEN tasks \ {tk}
                ELSE (tasks \ {tk}) \cup {[tk EXCEPT !.todo = Tail(@)]}
    /\ state' = IF Tail(tk.todo) = <<>> THEN [state EXCEPT !.sent = @ + 1] ELSE state
    /\ last' = [op |-> "manual_send", to |-> Head(tk.todo), ok |-> ok,
                snapshot |-> tk.snapshot, text |-> _bold(tk.caption),
                was_truncated |-> tk.was_truncated]
    /\ UNCHANGED <<now, signals_enabled, working_hours, signals_range, jobs,
                   timers, refreshAt, applications, user_stages, personal_signals,
                   cache, hist>>

\* _broadcast_manual_signal, one send; after the last one the summary goes to
\* the administrator
FinalizeManualSend(tk, ok) ==
    /\ tk \in tasks /\ tk.kind = "finalize" /\ tk.pc = "send"
    /\ tasks' = IF Tail(tk.todo) = <<>> THEN tasks \ {tk}
                ELSE (tasks \ {tk}) \cup {[tk EXCEPT !.todo = Tail(@)]}
    /\ last' = [op |-> "manual_send", to |-> Head(tk.todo), ok |-> ok,
                snapshot |-> tk.snapshot, text |-> _bold(tk.caption),
                was_truncated |-> tk.was_truncated]
    /\ UNCHANGED <<now, signals_enabled, working_hours, signals_range, state, jobs,
                   timers, refreshAt, applications, user_stages, personal_signals,
                   cache, hist>>

NextManual ==
    \/ \E tk \in tasks : FinalizeManualSignal(tk)
    \/ \E tk \in tasks : FinalizeManualRender(tk)
    \/ \E tk \in tasks, ok \in BOOLEAN : FinalizeManualSend(tk, ok)

SpecManual == InitManual /\ [][NextManual]_vars

\* how often a line is in the text just sent
Times(name) == Cardinality({k \in 1 .. Len(last.text) : last.text[k] = name})

\* C25: a manual signal sent after the snapshot source answered nothing carries
\* the notice once, each of the three price lines once with the placeholder in
\* place of a value, and one commentary line for each of the five categories.
C25_FallbackMessage ==
    (last.op = "manual_send" /\ last.snapshot = NoSnapshot) =>
        /\ Times("notice") = 1
        /\ \A key \in {"current", "support", "resistance"} :
              Times(PriceLine[key].dash) = 1 /\ Times(PriceLine[key].value) = 0
        /\ \A i \in 1 .. Len(TECHNICALS_CATEGORY_ORDER) :
              Times(TechnicalLine[TECHNICALS_CATEGORY_ORDER[i]]) = 1

\* the longest such message, with the time written in 309 digits and the
\* categories in reverse order, has been sent whole
C25_Witness ==
    /\ last.op = "manual_send" /\ last.snapshot = NoSnapshot
    /\ Len(last.text) > 900
    /\ ~last.was_truncated
    /\ Times("market:volume") = 1
    /\ \E k \in 1 .. Len(last.text) :
          last.text[k] = "technical:momentum"
          /\ \E j \in k + 1 .. Len(last.text) : last.text[j] = "technical:rsi"

----------------------------------------------------------------------------
(* The bookkeeping while callbacks and handlers interleave *)

\* the references an entry holds
Refs(entry) == {entry.warning, entry.delivery} \ {NoJob}

\* the jobs still in the queue: not yet run and not removed
LiveIds == {t.id : t \in timers}

\* C26: at every point where a callback or a handler is suspended, each
\* reference in the bookkeeping is to a job that has neither run nor been
\* removed, so that cancelOne and cancelAll, which remove the referenced jobs
\* and nothing else, remove as many live jobs as they find references: none
\* of their removals meets a job that has run or that was removed before.
C26_CancelsOnlyUnfired ==
    LET one == _cancel_one_scheduled_auto_job(World)
        every == _clear_auto_signal_jobs(World)
        Count(js) == Cardinality({<<i, id>> \in (DOMAIN js) \X JobIds(jobs) : id \in Refs(js[i])})
    IN /\ JobIds(jobs) \ {NoJob} \subseteq LiveIds
       /\ Cardinality(timers \ every.timers) = Count(jobs)
       /\ jobs # <<>> =>
             Cardinality(timers \ one.w.timers) = Count(<<jobs[Len(jobs)]>>)
       /\ JobIds(one.w.jobs) \cap {t.id : t \in timers \ one.w.timers} = {}

\* a manual trigger has cancelled a pair while a warning callback, whose own
\* job has run, is suspended in its broadcast
C26_Witness ==
    /\ last.op = "manual_trigger" /\ last.cancelled
    /\ \E tk \in tasks : tk.kind = "warning"
    /\ \E tk \in tasks : tk.kind = "manual"

\* C27: every entry of the bookkeeping refers to at least one job that is
\* still in the queue, so a pair whose two jobs have run or were removed is
\* in the list no more, and no job is referred to by two entries.
C27_EntriesLive ==
    /\ \A i \in DOMAIN jobs : Refs(jobs[i]) \cap LiveIds # {}
    /\ \A i, j \in DOMAIN jobs : i # j => Refs(jobs[i]) \cap Refs(jobs[j]) = {}

\* of two planned pairs one is gone, its delivery callback having just run,
\* and the other is left with its warning consumed and its delivery pending
C27_Witness ==
    /\ last.op = "delivery_job"
    /\ state.target = 2
    /\ Len(jobs) = 1
    /\ jobs[1].warning = NoJob /\ jobs[1].delivery \in LiveIds

----------------------------------------------------------------------------
(* A day on which the window has no room left: the process starts late in   *)
(* the window or after it, or the stored window is empty. No job is ever    *)
(* scheduled; the administrator's manual trigger is the only way to a run.  *)

LateSeconds == {p \in ProbeSeconds : p >= 9 * 3600 + 45}
LateHours == {<<9, 0, 9, 1>>, <<9, 0, 9, 0>>, <<12, 0, 9, 0>>}

InitLate ==
    /\ now \in {MaxDay * DaySeconds + p : p \in LateSeconds}
    /\ signals_enabled = <<1>>
    /\ working_hours \in LateHours
    /\ signals_range = <<1, MaxCount>>
    /\ state = [date |-> NoDate, target |-> 0, sent |-> 0]
    /\ jobs = <<>>
    /\ timers = {}
    /\ refreshAt = NoTime
    /\ tasks = {}
    /\ last = [op |-> "init"]
    /\ hist = NoHist
    /\ (SomeRecipients \/ NoRecipients)

NextLate ==
    \/ PostInit({0})
    \/ Tick
    \/ AtProbe /\ ManualTrigger
    \/ \E tk \in tasks : WarnOne(tk)
    \/ \E tk \in tasks : ManualWake(tk)
    \/ \E tk \in tasks : FetchDone(tk, {TRUE}, {RenderedShort})
    \/ \E tk \in tasks : SendOne(tk, {TRUE})
    \/ \E tk \in tasks : ManualFinish(tk, {0})

SpecLate == InitLate /\ [][NextLate]_vars

\* why a build that reached the window found no room in it, from what it read:
\* lines 1676 (empty), 1687 (late) and 1691 (short); "room" otherwise
SlotOf(build) ==
    LET window == _resolve_auto_signal_window(build.hours).window
        start_dt == Day(build.at) * DaySeconds + window[1]
        end_dt == Day(build.at) * DaySeconds + window[2]
        earliest == Max(start_dt, build.at + AUTO_SIGNAL_WARNING_SECONDS + 1)
    IN IF end_dt <= start_dt THEN "empty"
       ELSE IF end_dt <= earliest THEN "late"
       ELSE IF end_dt - earliest <= AUTO_SIGNAL_WARNING_SECONDS THEN "short"
       ELSE "room"

\* the step is a build that got as far as the window and found no room
BuildsWithoutSlot ==
    /\ Rebuilds
    /\ last'.build.toggle = <<1>>
    /\ _parse_signal_range_bounds(last'.build.range) # None
    /\ SlotOf(last'.build) # "room"

\* C28 as stated: once a build without a usable slot has recorded a target,
\* sent stays below it for the rest of the day.
C28_Original ==
    (Running /\ state.date = Day(now) /\ state.target > 0) =>
        state.sent < state.target

\* C28: a build that finds no usable slot leaves no job and no reference,
\* sets sent to 0 and records target 0 when the window is empty and the
\* drawn target otherwise; after it sent rises only when a manual trigger's
\* pipeline run ends, by one, and the rebuild that ends the trigger sets it
\* to 0 again.
C28_NoSlotBuild ==
    [][/\ BuildsWithoutSlot =>
            /\ timers' = {} /\ jobs' = <<>>
            /\ state'.date = Day(last'.build.at) /\ state'.sent = 0
            /\ state'.target = IF SlotOf(last'.build) = "empty"
                               THEN 0 ELSE last'.build.drawn
       /\ state'.sent > state.sent =>
            /\ last'.op \in {"send_one", "fetch_done", "manual_wake"}
            /\ state'.sent = state.sent + 1
            /\ \E tk \in tasks' : tk.kind = "manual" /\ tk.pc = "view"
       /\ last'.op = "manual_finish" => BuildsWithoutSlot]_vars

\* a build with less of the window left than the lead takes, and 2 drawn:
\* the target is recorded, nothing is sent and no job is in the queue
C28_Witness ==
    /\ last.op \in {"post_init", "manual_finish"}
    /\ SlotOf(last.build) = "short"
    /\ last.build.drawn = 2
    /\ state = [date |-> Day(now), target |-> 2, sent |-> 0]
    /\ timers = {}

----------------------------------------------------------------------------
(* Callbacks that find nothing left to do *)

\* the day state is today's and nothing of its target is left
QuotaMet == state.date = Day(now) /\ state.target - state.sent <= 0

\* C29: a delivery callback that runs when nothing of today's target is left
\* starts no pipeline run (so nobody is contacted) and leaves the day state as
\* it was; a warning callback that runs then, or while the toggle is off,
\* starts no broadcast and leaves the day state as it was.
C29_NothingLeft ==
    [][/\ (last'.op = "delivery_job" /\ QuotaMet) =>
             /\ ~last'.ran
             /\ tasks' = tasks
             /\ state' = state
       /\ (last'.op = "warning_job" /\ (QuotaMet \/ ~get_global_signals(World))) =>
             /\ last'.warned = <<>>
             /\ tasks' = tasks
             /\ state' = state]_vars

\* a delivery callback has just run with the toggle on and recipients present,
\* after the whole target of 1 had been sent, and did not start a run
C29_Witness ==
    /\ last.op = "delivery_job" /\ ~last.ran
    /\ get_global_signals(World)
    /\ applications[1] = "approved"
    /\ state.date = Day(now) /\ state.target = 1 /\ state.sent = 1
    /\ tasks = {}

----------------------------------------------------------------------------
(* The order of one run of the pipeline *)

Ascending(seq) == \A i, j \in DOMAIN seq : i < j => seq[i] < seq[j]

\* C30: in every step in which a send of a pipeline run ends, the run was
\* waiting for that one recipient, the smallest of those it still has to
\* contact; whether the send succeeded or failed the run goes on with the
\* larger ones and never comes back to this one; the day's sent counter is
\* left alone while any are left and is raised by one in the step in which
\* the send to the last one ends.
C30_InOrderThenCount ==
    [][last'.op = "send_one" =>
          \E tk \in tasks \ tasks' :
             /\ tk.pc = "send"
             /\ Ascending(tk.todo)
             /\ last'.to = Head(tk.todo)
             /\ IF Tail(tk.todo) # <<>>
                THEN /\ \E next \in tasks' \ tasks :
                           /\ next.tid = tk.tid /\ next.pc = "send"
                           /\ next.todo = Tail(tk.todo)
                     /\ state' = state
                     /\ last'.returned = None
                ELSE /\ ~\E next \in tasks' : next.tid = tk.tid /\ next.pc = "send"
                     /\ last'.returned # None
                     /\ last'.counted = state.sent + 1]_vars

\* a run to two recipients has ended with the send to the larger one; the
\* send to the smaller one had failed and was not tried again
C30_Witness ==
    /\ last.op = "send_one" /\ last.to = 2
    /\ last.returned # None
    /\ last.returned.failed = <<1>>
    /\ last.returned.delivered = 1
    /\ state.sent >= 1

----------------------------------------------------------------------------
(* Pipeline runs that overlap *)

\* a run of the pipeline returns in this step
RunReturns == last'.op \in RunOps /\ last'.returned # None

\* the plan is built in this step: by a handler or the refresh, or by
\* _ensure_auto_signal_state on the first read of the day state on a new day
BuildsPlan == Rebuilds \/ state'.date # state.date

\* C31: whatever runs are in flight, a step in which the plan is not built
\* raises sent by one when a run of the pipeline returns in it and leaves sent
\* alone otherwise, and target with it: between two builds sent has risen by
\* the number of runs that returned, however they overlapped.
C31_NoLostIncrement ==
    [][~BuildsPlan =>
          /\ state'.sent = state.sent + (IF RunReturns THEN 1 ELSE 0)
          /\ state'.target = state.target]_vars

\* a run has returned as the second of the day to do so, while another run,
\* which started before it returned, is still waiting for its fetch or a send
C31_Witness ==
    /\ last.op \in {"send_one", "fetch_done"} /\ last.returned # None
    /\ \E tk \in tasks : tk.pc \in {"fetch", "send"}
    /\ state.sent = 2

----------------------------------------------------------------------------
(* The end of the snapshot fetch *)

\* C32: when the snapshot fetch of a run ends, whatever it brought, the run
\* goes on to send to every recipient it had resolved, or, with nobody to
\* send to, returns having counted the signal.
C32_FetchNeverAborts ==
    [][\A tk \in tasks \ tasks' :
          tk.pc = "fetch" =>
             \/ \E next \in tasks' \ tasks :
                   next.tid = tk.tid /\ next.pc = "send" /\ next.todo = tk.todo
             \/ /\ tk.todo = <<>>
                /\ "returned" \in DOMAIN last'
                /\ last'.returned # None
                /\ last'.counted = state.sent + 1]_vars

----------------------------------------------------------------------------
(* Instants that have passed before they are scheduled *)

\* the build of this step found room in the window and went on to draw instants
BuildsWithSlot ==
    /\ Rebuilds
    /\ last'.build.toggle = <<1>>
    /\ _parse_signal_range_bounds(last'.build.range) # None
    /\ SlotOf(last'.build) = "room"

\* the instant a build draws with one pick (lines 1696-1702)
InstantOf(build, pick) ==
    LET window == _resolve_auto_signal_window(build.hours).window
        end_dt == Day(build.at) * DaySeconds + window[2]
        earliest == Max(Day(build.at) * DaySeconds + window[1],
                        build.at + AUTO_SIGNAL_WARNING_SECONDS + 1)
        candidate == earliest + _offset(pick, end_dt - earliest)
    IN IF candidate >= end_dt THEN end_dt - 1 ELSE candidate

\* C33: a build that draws instants records the drawn count as the target,
\* whatever becomes of the instants, and registers one pair for each drawn
\* instant that lies after the clock reading of the scheduling loop and none
\* for the others; so it registers at most target pairs.
C33_ElapsedSkipped ==
    [][BuildsWithSlot =>
          LET build == last'.build
              scheduled_at == build.at + build.lag
          IN /\ state'.target = build.drawn /\ state'.sent = 0
             /\ Len(jobs') <= state'.target
             /\ \E picks \in PicksOf(build.drawn) :
                   LET future == {i \in 1 .. build.drawn :
                                     InstantOf(build, picks[i]) > scheduled_at}
                   IN /\ Len(jobs') = Cardinality(future)
                      /\ {t.at : t \in {x \in timers' : x.kind = "delivery"}}
                            = {InstantOf(build, picks[i]) : i \in future}
             /\ \A t \in timers' : t.kind = "delivery" => t.at > scheduled_at]_vars

\* a build that stalled for 12 s before scheduling drew two instants, recorded
\* 2 and registered one pair: the other instant had passed
C33_Witness ==
    /\ Built /\ last.build.lag = 12
    /\ last.build.drawn = 2 /\ state.target = 2
    /\ Len(jobs) = 1
    /\ TimerOf(jobs[1].delivery).at > now

----------------------------------------------------------------------------
(* Reading a personal preference *)

\* the users whose preference can be read in this state: those the recipient
\* resolver reads, which a job callback can call at any time, and, when no
\* handler is suspended, anybody (in a handler of their own)
ReadNow ==
    IF HandlerIdle THEN Users
    ELSE (ADMIN_IDS \cap Users)
         \cup (list_signal_recipient_ids(World, STAGE_COMPLETED) \ ADMIN_IDS)

\* C34: a read of a preference that is not stored returns true and stores
\* true; a read of a stored preference returns the stored value and leaves it
\* as it is, so that a stored false stays false.
C34_ReadsPersisted ==
    \A u \in ReadNow :
        LET got == _get_personal_signals_setting(World, u)
        IN IF personal_signals[u] = NoPref
           THEN got.value /\ got.w.ps[u] = _pref(TRUE)
           ELSE /\ got.value = (personal_signals[u] = _pref(TRUE))
                /\ got.w.ps[u] = personal_signals[u]

----------------------------------------------------------------------------
(* Pending deliveries and the quota *)

\* the delivery jobs the bookkeeping refers to that are still in the queue
PendingDeliveries ==
    {t \in timers : t.kind = "delivery" /\ \E i \in DOMAIN jobs : jobs[i].delivery = t.id}

\* C35: the delivery jobs pending are never more than what is left of the
\* day's target, and a delivery callback that runs goes on to a pipeline run.
C35_TimersWithinQuota ==
    /\ Cardinality(PendingDeliveries) <= state.target - state.sent
    /\ last.op = "delivery_job" => last.ran

----------------------------------------------------------------------------
(* From the warning to the signal *)

\* the warning of the signal this job delivers has been sent to somebody
Warned(t) == \E wn \in hist.warned : wn.sig = t.name

\* C36: a delivery job of a signal whose warning has been sent leaves the job
\* queue in one way only: its callback runs, and goes on to a pipeline run.
C36_WarnedThenDelivered ==
    [][\A t \in DeliveriesGone :
          Warned(t) => FiresNow(t) /\ last'.ran]_vars

----------------------------------------------------------------------------
(* Who can become a recipient *)

\* C37: a user who is not an administrator and whose application is not
\* approved is not returned by the recipient resolver.
C37_UnapprovedNotRecipient ==
    last.op = "gather" =>
        \A i \in DOMAIN last.recipients :
            LET u == last.recipients[i]
            IN u \in ADMIN_IDS \/ applications[u] = "approved"

----------------------------------------------------------------------------
(* The custom manual signal beside a day's plan *)

\* the handler's coroutine as the administrator's last choice starts it
ManualSignalTask(direction, time_text) ==
    [tid |-> 0, kind |-> "finalize", pc |-> "start", todo |-> <<>>, wake |-> NoTime,
     target_before |-> 0, remaining_before |-> 0,
     snapshot |-> NoSnapshot, was_truncated |-> FALSE, acc |-> NoSends,
     sig |-> NoTime, lead |-> 0, cancelled |-> FALSE,
     direction |-> direction, time |-> time_text, caption |-> <<>>]

\* handle_admin_actions (line 2418) and _process_admin_text_input (line 3558):
\* the time is stored and _finalize_manual_signal runs up to its first await
ManualTimeChosen(direction, time_text) ==
    /\ Running /\ HandlerIdle
    /\ LET tk == ManualSignalTask(direction, time_text)
           w0 == _ensure_bot_defaults(World)
           gathered == _gather_signal_recipients(w0)
       IN IF ~get_global_signals(w0)
          THEN /\ Commit(w0)
               /\ tasks' = tasks
               /\ last' = [op |-> "manual_summary", notice |-> "signals_disabled"]
          ELSE IF gathered.recipients = <<>>
          THEN /\ Commit(gathered.w)
               /\ tasks' = tasks
               /\ last' = [op |-> "manual_summary", notice |-> "no_recipients"]
          ELSE /\ Commit(gathered.w)
               /\ tasks' = tasks \cup
                           {[tk EXCEPT !.pc = "fetch", !.todo = gathered.recipients]}
               /\ last' = [op |-> "manual_fetch"]
    /\ UNCHANGED <<refreshAt, hist>>

\* lines 3217-3227: anything raised by the fetch, the rendering or the opening
\* of the image ends the handler in its except clause, which resets the
\* administrator's choices and sends the summary
FinalizeManualRaises(tk) ==
    /\ tk \in tasks /\ tk.kind = "finalize" /\ tk.pc \in {"fetch", "send"}
    /\ tasks' = tasks \ {tk}
    /\ last' = [op |-> "manual_summary", notice |-> "unknown_error"]
    /\ UNCHANGED <<now, signals_enabled, working_hours, signals_range, state, jobs,
                   timers, refreshAt, applications, user_stages, personal_signals,
                   cache, hist>>

InitCustom ==
    /\ InitEngine
    /\ hist = NoHist
    /\ (SomeRecipients \/ NoRecipients)

NextCustom ==
    \/ PostInit({0})
    \/ RefreshJob({0})
    \/ Tick
    \/ \E t \in timers : WarningJob(t)
    \/ \E t \in timers : DeliveryJob(t)
    \/ \E tk \in JobTasks : WarnOne(tk)
    \/ \E tk \in JobTasks : FetchDone(tk, {TRUE}, {RenderedShort})
    \/ \E tk \in JobTasks : SendOne(tk, {TRUE})
    \/ AtProbe /\ \E direction \in {"buy", "sell"} : ManualTimeChosen(direction, 4)
    \/ \E tk \in tasks : FinalizeManualRender(tk)
    \/ \E tk \in tasks, ok \in BOOLEAN : FinalizeManualSend(tk, ok)
    \/ \E tk \in tasks : FinalizeManualRaises(tk)

SpecCustom == InitCustom /\ [][NextCustom]_vars

\* a step of the custom manual signal: its start, or its coroutine moving on
CustomSignalSteps ==
    \/ last'.op \in {"manual_summary", "manual_fetch", "manual_render", "manual_send"}
    \/ \E tk \in tasks : tk.kind = "finalize" /\ tk \notin tasks'

\* C38: no step of the custom manual signal, from the choice of the time to
\* the summary, changes the day's date, target or sent count, removes a timer
\* or adds one, or touches the bookkeeping of the pairs; this holds when every
\* send succeeds, when some fail and when the handler ends in its except clause.
C38_EngineUntouched ==
    [][CustomSignalSteps =>
          /\ state' = state
          /\ timers' = timers
          /\ jobs' = jobs
          /\ refreshAt' = refreshAt]_vars

\* a send of the custom signal has failed while one signal of the day is sent
\* and the timers of another are pending
C38_Witness ==
    /\ last.op = "manual_send" /\ ~last.ok
    /\ state.sent = 1 /\ state.target = 2
    /\ timers # {} /\ jobs # <<>>

----------------------------------------------------------------------------
(* The settings rows from a database that has none *)

\* the process starts at 12:01 on a database without settings rows
InitDefaults ==
    /\ now = 12 * 3600 + 60
    /\ signals_enabled = None
    /\ working_hours = None
    /\ signals_range = None
    /\ state = [date |-> NoDate, target |-> 0, sent |-> 0]
    /\ jobs = <<>>
    /\ timers = {}
    /\ refreshAt = NoTime
    /\ tasks = {}
    /\ last = [op |-> "init"]
    /\ hist = NoHist
    /\ (SomeRecipients \/ NoRecipients)

NextDefaults ==
    \/ PostInit({0})
    \/ Tick
    \/ \E desired \in BOOLEAN : AdminToggle(desired, {0})
    \/ \E admin \in ADMIN_IDS, desired \in BOOLEAN : WorkspaceToggle(admin, desired)
    \/ \E hours \in EngineHours : SetWorkingHours(hours, {0})
    \/ \E range_value \in EngineRanges : SetSignalRange(range_value, {0})
    \/ ResolveRecipients

SpecDefaults == InitDefaults /\ [][NextDefaults]_vars

\* C39: a settings row that holds a value keeps it through every step that is
\* not the row's own setter, whatever number of ensure_defaults calls the
\* step makes: the toggle through every step but the two toggle handlers,
\* the working hours through every step but the hours input, the count range
\* through every step but the range input; so the three reads return what
\* was set.
C39_DefaultsKeepValues ==
    [][/\ (signals_enabled # None /\ last'.op \notin {"admin_toggle", "workspace_toggle"})
            => /\ signals_enabled' = signals_enabled
               /\ get_global_signals(World') = get_global_signals(World)
       /\ (working_hours # None /\ last'.op # "set_working_hours")
            => working_hours' = working_hours
       /\ (signals_range # None /\ last'.op # "set_signal_range")
            => signals_range' = signals_range]_vars

\* the resolver has run, ensure_defaults with it, on a database where the
\* toggle was set to off and the hours and the range to other values than
\* the defaults
C39_Witness ==
    /\ last.op = "gather"
    /\ signals_enabled = <<0>>
    /\ working_hours = <<9, 0, 9, 1>>
    /\ signals_range = <<1, MaxCount>>

====
